---- MODULE Spec2Model ----
(***************************************************************************)
(* Retention subsystem of pylogtrail: the record store (log_entries), the  *)
(* retention configuration, the duration parser and one cleanup pass of    *)
(* RetentionManager, run concurrently with log ingestion and the clock.    *)
(*                                                                         *)
(* Timestamps are whole seconds.  A cleanup pass is split at its accesses  *)
(* to the store: every query, the export and every committed batch is one  *)
(* step, so ingestion and the clock can interleave between them.           *)
(*                                                                         *)
(* The background worker of the server (retention_background_thread) runs  *)
(* its wake cycles over the same pass, against the schedule section of the *)
(* configuration, its file and the cache of the config manager, until the  *)
(* server stops it or exits.                                               *)
(*                                                                         *)
(* create_app runs the startup pass before it registers the log route and  *)
(* starts the worker.  Two passes may run at once, a manual one beside the *)
(* worker's.  The config manager is also modelled on the whole document:   *)
(* load, get, save and update_last_execution, the PUT handler of the       *)
(* settings and the update command of the command line.                    *)
(*                                                                         *)
(* Beside the retention subsystem the module follows the log endpoint of   *)
(* the HTTP server, the UDP log handler with its listener threads, the     *)
(* worker thread and its stop event over several calls of create_app, a    *)
(* settings request beside update_last_execution on shared config objects, *)
(* and the logging contexts of the client.                                 *)
(***************************************************************************)
EXTENDS Integers, Sequences, FiniteSets, TLC

VARIABLES
    store,      \* committed rows of log_entries: set of [id, timestamp]
    next_id,    \* high-water mark of the identifiers handed out so far, plus one
    now,        \* wall clock, time.time()
    ticks,      \* number of clock advances so far
    archives,   \* export directory: archive name :> set of exported rows
    config,     \* the RetentionConfig the config manager holds
    pass,       \* per cleanup pass: position and locals of cleanup_logs
    info,       \* last answer of get_retention_info, or None
    schedule_file,    \* the schedule section of retention_config.yml
    schedule_cached,  \* the schedule of RetentionConfigManager._config, or None
    stop_event,       \* retention_stop_event.is_set()
    worker,           \* position and locals of retention_background_thread
    duration_input,     \* the argument of a call of parse_duration
    parsed,           \* what that call answered, or None before it
    app,              \* position and locals of create_app
    document,         \* retention_config.yml as a whole, or None without a file
    manager_config,   \* RetentionConfigManager._config as a whole, or None
    called,           \* the last operation on the settings and its answer, or None
    context,          \* the handlers of the target logger and the PyLogTrailContext objects
    threads,          \* create_app and main: retention_thread, retention_stop_event, workers
    race,             \* a settings request beside update_last_execution, step by step
    endpoint,         \* the last request of log_endpoint and its answer, or None
    udp               \* UDPLogHandler: running, socket, thread and the listener threads

handler_vars == <<context, threads, race, endpoint, udp>>
scheduler_vars == <<schedule_file, schedule_cached, stop_event, worker>>
parser_vars == <<duration_input, parsed>>
app_vars == <<app>>
settings_vars == <<document, manager_config, called>>

vars == <<store, next_id, now, ticks, archives, config, handler_vars, pass, info,
          schedule_file, schedule_cached, stop_event, worker, duration_input, parsed,
          app, document, manager_config, called>>

----------------------------------------------------------------------------
(* Bounds of the model *)

\* identifiers range over 1..MaxId
MaxId == 3
\* batch size of _delete_records (1000 in the source), scaled to the store
batch_size == 2
\* clock advances per behaviour
MaxTicks == 1
\* length of the duration strings tried exhaustively
MaxLen == 3
\* largest number of days, hours or minutes in the composed duration strings
MaxNumber == 12

----------------------------------------------------------------------------
(* Values *)

None == <<>>

\* the passes that may run: the one asked for by a request or a command, the
\* one of the background worker, and the one create_app runs at startup
Passes == {"manual", "scheduled", "startup"}

\* the clock at the start, and the timestamps ingestion may supply
Clock0 == 2 * 86400
Timestamps == {Clock0 - 7200, Clock0 - 3600, Clock0 - 1800}

Max(S) == CHOOSE x \in S : \A y \in S : y <= x
Min2(a, b) == IF a <= b THEN a ELSE b
Ids(rows) == {r.id : r \in rows}

----------------------------------------------------------------------------
(* Duration parser: RetentionConfigManager.parse_duration *)

Digits == {"0", "1", "2", "3", "4", "5", "6", "7", "8", "9"}
Whitespace == {" "}

DigitValue(c) ==
    CASE c = "0" -> 0 [] c = "1" -> 1 [] c = "2" -> 2 [] c = "3" -> 3
      [] c = "4" -> 4 [] c = "5" -> 5 [] c = "6" -> 6 [] c = "7" -> 7
      [] c = "8" -> 8 [] c = "9" -> 9

\* int(text) of a run of digits
RECURSIVE ToInt(_)
ToInt(ds) ==
    IF ds = <<>> THEN 0
    ELSE 10 * ToInt(SubSeq(ds, 1, Len(ds) - 1)) + DigitValue(ds[Len(ds)])

\* str.strip()
RECURSIVE strip(_)
strip(s) ==
    IF s = <<>> THEN s
    ELSE IF Head(s) \in Whitespace THEN strip(Tail(s))
    ELSE IF s[Len(s)] \in Whitespace THEN strip(SubSeq(s, 1, Len(s) - 1))
    ELSE s

\* end (exclusive) of the longest run of digits of s that starts at pos
RECURSIVE DigitRunEnd(_, _)
DigitRunEnd(s, pos) ==
    IF pos <= Len(s) /\ s[pos] \in Digits THEN DigitRunEnd(s, pos + 1) ELSE pos

\* variant: the group takes one digit, (\d) for (\d+)
MatchGroupOneDigit(s, pos, unit) ==
    IF pos + 1 <= Len(s) /\ s[pos] \in Digits /\ s[pos + 1] = unit
    THEN [group |-> SubSeq(s, pos, pos), next |-> pos + 2]
    ELSE [group |-> None, next |-> pos]

\* one optional group (?:(\d+)<unit>)? tried at pos: the digits are taken
\* greedily, and the group is skipped when the unit does not follow them
MatchGroup(s, pos, unit) ==
    LET e == DigitRunEnd(s, pos)
    IN  IF e > pos /\ e <= Len(s) /\ s[e] = unit
        THEN [group |-> SubSeq(s, pos, e - 1), next |-> e + 1]
        ELSE [group |-> None, next |-> pos]

\* re.match(pattern, text): anchored at the start only; always matches
DurationMatch(s) ==
    LET d == MatchGroup(s, 1, "d")
        h == MatchGroup(s, d.next, "h")
        m == MatchGroup(s, h.next, "m")
    IN  [days |-> d.group, hours |-> h.group, minutes |-> m.group, end |-> m.next]

ValueError == [raised |-> TRUE, value |-> 0]
Returned(v) == [raised |-> FALSE, value |-> v]

parse_duration(duration_str) ==
    LET match == DurationMatch(strip(duration_str))
        total_seconds ==
            (IF match.days # None THEN ToInt(match.days) * 24 * 60 * 60 ELSE 0)
          + (IF match.hours # None THEN ToInt(match.hours) * 60 * 60 ELSE 0)
          + (IF match.minutes # None THEN ToInt(match.minutes) * 60 ELSE 0)
    IN  IF total_seconds = 0 THEN ValueError ELSE Returned(total_seconds)

----------------------------------------------------------------------------
(* Retention configuration: RetentionConfig *)

\* stored durations: one hour, one hour with trailing text, and one that
\* does not parse
Durations == { <<"1", "h">>, <<"1", "h", "x">>, <<"g">> }

MaxEntriesValues == {1, 2}

\* the configurations a pass may find; a disabled section, which a pass never
\* reads, holds its default values (_get_default_config)
Configs ==
    {c \in [time_based  : [enabled : BOOLEAN, duration : Durations],
            count_based : [enabled : BOOLEAN, max_entries : MaxEntriesValues],
            export      : [enabled : BOOLEAN, include_timestamp : BOOLEAN]] :
        /\ ~c.time_based.enabled => c.time_based.duration = <<"1", "h">>
        /\ ~c.count_based.enabled => c.count_based.max_entries = 2
        /\ ~c.export.enabled => c.export.include_timestamp}

----------------------------------------------------------------------------
(* Schedule: ScheduleConfig, its document and the cache of the config manager *)

\* the texts of last_execution: an ISO-8601 text, written as the wall-clock
\* seconds it shows and its suffix, or a text that is no timestamp
iso(wall, suffix) == [text |-> "iso", wall |-> wall, suffix |-> suffix]
NoTimestamp == [text |-> "other"]

\* str.replace('Z', '+00:00')
replace_Z(text) ==
    IF text # NoTimestamp /\ text.suffix = "Z" THEN [text EXCEPT !.suffix = "+00:00"]
    ELSE text

\* datetime.fromisoformat: a datetime [wall, aware, utcoffset], naive when the
\* text has no suffix; a 'Z' suffix (before Python 3.11) and other texts raise
\* ValueError
fromisoformat(text) ==
    IF text = NoTimestamp \/ text.suffix = "Z" THEN [raised |-> TRUE]
    ELSE [raised |-> FALSE,
          value |-> [wall |-> text.wall,
                     aware |-> text.suffix # "",
                     utcoffset |-> IF text.suffix = "+01:00" THEN 3600 ELSE 0]]

\* if last_execution.tzinfo is None: last_execution.replace(tzinfo=timezone.utc)
assume_utc(dt) == IF ~dt.aware THEN [dt EXCEPT !.aware = TRUE, !.utcoffset = 0] ELSE dt

\* datetime.now(timezone.utc)
utcnow(t) == [wall |-> t, aware |-> TRUE, utcoffset |-> 0]

\* (a - b).total_seconds() of two aware datetimes
total_seconds(a, b) == (a.wall - a.utcoffset) - (b.wall - b.utcoffset)

\* datetime.isoformat() of an aware UTC datetime
isoformat(dt) == iso(dt.wall, "+00:00")

\* _get_default_config, the schedule section
DefaultSchedule == [on_startup |-> TRUE, interval_hours |-> 24, last_execution |-> None]

\* a document yaml.safe_load answers None for
EmptyDocument == [document |-> "empty"]

\* load_config: the schedule it returns and the cache afterwards; without a
\* file the defaults are returned and nothing is cached, and an empty document
\* raises (None has no get)
load_config(file) ==
    IF file = None THEN [raised |-> FALSE, schedule |-> DefaultSchedule, cached |-> None]
    ELSE IF file = EmptyDocument THEN [raised |-> TRUE, cached |-> None]
    ELSE [raised |-> FALSE, schedule |-> file, cached |-> file]

\* get_config
get_config(cached, file) ==
    IF cached = None THEN load_config(file)
    ELSE [raised |-> FALSE, schedule |-> cached, cached |-> cached]

\* config.schedule.last_execution = timestamp, on the object get_config
\* returned: the cache when there is one
set_last_execution(cached, timestamp) ==
    IF cached = None THEN None ELSE [cached EXCEPT !.last_execution = timestamp]

\* update_last_execution: the file and the cache afterwards; save_config may
\* raise before the file is opened (mkdir, open) or after (yaml.dump), which
\* leaves the file truncated
update_last_execution(cached, file, timestamp, outcome) ==
    LET got == get_config(cached, file)
    IN  IF got.raised THEN [raised |-> TRUE, file |-> file, cached |-> got.cached]
        ELSE LET cfg == [got.schedule EXCEPT !.last_execution = timestamp]
             IN  CASE outcome = "ok" -> [raised |-> FALSE, file |-> cfg, cached |-> cfg]
                   [] outcome = "fails_before_open" ->
                        [raised |-> TRUE, file |-> file,
                         cached |-> set_last_execution(got.cached, timestamp)]
                   [] outcome = "fails_after_open" ->
                        [raised |-> TRUE, file |-> EmptyDocument,
                         cached |-> set_last_execution(got.cached, timestamp)]

----------------------------------------------------------------------------
(* Record store: the queries of RetentionManager on log_entries *)

\* all stores holding the identifiers 1..n
StoresOf(n) ==
    {{[id |-> i, timestamp |-> f[i]] : i \in 1..n} : f \in [1..n -> Timestamps]}

\* variant: the comparison admits the cutoff itself
older_or_equal(rows, cutoff_timestamp) ==
    {r.id : r \in {x \in rows : x.timestamp <= cutoff_timestamp}}

\* session.query(LogEntry.id).filter(LogEntry.timestamp < cutoff).all()
older_than(rows, cutoff_timestamp) ==
    {r.id : r \in {x \in rows : x.timestamp < cutoff_timestamp}}

\* variant: the rows are ordered newest first
newest(rows, n) ==
    {Ids(S) : S \in {X \in SUBSET rows :
        /\ Cardinality(X) = Min2(n, Cardinality(rows))
        /\ \A a \in X : \A b \in rows \ X : a.timestamp >= b.timestamp}}

\* session.query(LogEntry.id).order_by(LogEntry.timestamp).limit(n).all():
\* the possible answers; rows of equal timestamp come in any order
oldest(rows, n) ==
    {Ids(S) : S \in {X \in SUBSET rows :
        /\ Cardinality(X) = Min2(n, Cardinality(rows))
        /\ \A a \in X : \A b \in rows \ X : a.timestamp <= b.timestamp}}

\* session.query(LogEntry).filter(LogEntry.id.in_(ids))
rows_in(rows, ids) == {r \in rows : r.id \in ids}

\* the identifier a new row gets: the next unused one, or (a rowid table
\* without AUTOINCREMENT) one more than the largest identifier stored
new_ids(rows, unused) == {unused} \cup {Max(Ids(rows) \cup {0}) + 1}

----------------------------------------------------------------------------
(* Candidate selection of RetentionManager *)

\* variant: the exception of a failed selection leaves cleanup_logs
selection_error_propagates(failed, next) == IF failed THEN "raised" ELSE next

\* both selections catch every exception, so cleanup_logs goes on to its next
\* step whether the selection failed or not
after_selection(failed, next) == next

\* _get_time_based_deletion_ids: the identifiers older than the cutoff; any
\* exception (the duration does not parse, the query fails) gives no candidate
SelectionError == {}

get_time_based_deletion_ids(rows, duration, t, query_fails) ==
    LET duration_seconds == parse_duration(duration)
    IN  IF duration_seconds.raised \/ query_fails THEN SelectionError
        ELSE older_than(rows, t - duration_seconds.value)

\* _get_count_based_deletion_ids: the possible answers
records_to_delete(total_count, max_entries) == total_count - max_entries

get_count_based_deletion_ids(rows, max_entries, query_fails) ==
    LET total_count == Cardinality(rows)
    IN  IF query_fails THEN {SelectionError}
        ELSE IF total_count <= max_entries THEN {{}}
        ELSE oldest(rows, records_to_delete(total_count, max_entries))

\* variant: only the identifiers both criteria select
deletion_ids_common(time_based_ids, count_based_ids) == time_based_ids \cap count_based_ids

\* deletion_ids = set(time_based_ids) | set(count_based_ids)
deletion_ids(time_based_ids, count_based_ids) == time_based_ids \cup count_based_ids

\* variant: the zero result names an archive
ZeroResultWithFile ==
    [records_deleted |-> 0, export_file |-> <<"deleted_logs">>,
     time_based_deletions |-> 0, count_based_deletions |-> 0]

\* the record cleanup_logs returns when nothing is selected
ZeroResult ==
    [records_deleted |-> 0, export_file |-> None,
     time_based_deletions |-> 0, count_based_deletions |-> 0]

\* the record cleanup_logs returns otherwise
Result(records_deleted, export_file, time_based_ids, count_based_ids, dry_run) ==
    [records_deleted |-> records_deleted, export_file |-> export_file,
     time_based_deletions |-> Cardinality(time_based_ids),
     count_based_deletions |-> Cardinality(count_based_ids),
     dry_run |-> dry_run]

----------------------------------------------------------------------------
(* Export and deletion of RetentionManager *)

\* variant: the deletion does not wait for an export
export_skipped(cfg, dry_run) == FALSE

\* variant: the dry_run flag is not consulted
export_wanted_always(cfg, dry_run) == cfg.export.enabled

\* cleanup_logs exports only in a pass that deletes
export_wanted(cfg, dry_run) == cfg.export.enabled /\ ~dry_run

\* _export_records: the archive's name, from the clock when include_timestamp
archive_name(include_timestamp, t) ==
    IF include_timestamp THEN <<"deleted_logs", t>> ELSE <<"deleted_logs">>

\* zipfile.ZipFile(zip_filename, 'w'): the archive is created or replaced
write_archive(dir, name, rows) ==
    [n \in DOMAIN dir \cup {name} |-> IF n = name THEN rows ELSE dir[n]]

\* variant: the exception of a failed export leaves cleanup_logs
export_error_propagates(failed) == IF failed THEN "raised" ELSE "delete"

\* _export_records swallows every exception and answers None; cleanup_logs
\* goes on to the deletion
after_export(failed) == "delete"

\* variant: the slice is one identifier too long
batches_one_longer(record_ids) ==
    {b \in SUBSET record_ids :
        Cardinality(b) = Min2(batch_size + 1, Cardinality(record_ids))}

\* record_ids[i:i + batch_size]: the possible batches of the identifiers not
\* yet handled, list(deletion_ids) being in no particular order
batches_of(record_ids) ==
    {b \in SUBSET record_ids :
        Cardinality(b) = Min2(batch_size, Cardinality(record_ids))}

\* variant: no rollback, so the exit of get_db_session commits what is pending
no_rollback(rows, pending) == rows \ pending

\* session.rollback() in the handler of _delete_records: the rows the failing
\* batch had marked deleted are kept
rollback(rows, pending) == rows

\* variant: the count of a batch is the number of identifiers asked for
rowcount_requested(rows, batch_ids) == Cardinality(batch_ids)

\* deleted_count, the answer of Query.delete: the rows the statement removed
rowcount(rows, batch_ids) == Cardinality(rows_in(rows, batch_ids))

\* what _delete_records returns from its except branch
delete_error_result(total_deleted) == 0

----------------------------------------------------------------------------
(* State of one cleanup pass *)

IdlePass ==
    [pc |-> "idle", dry_run |-> FALSE, config |-> None,
     time_based_ids |-> {}, count_based_ids |-> {}, record_ids |-> {},
     total_deleted |-> 0, export_file |-> None, result |-> None,
     \* history, for the properties
     store0 |-> {}, time_view |-> None, count_view |-> None,
     concurrent_writes |-> 0, faults |-> {}, exported |-> FALSE,
     batches |-> <<>>, failed_batch |-> {}, removed |-> {}]

Active(p) == pass[p].pc \notin {"idle", "done", "raised"}

\* the worker before create_app starts it
WorkerOff ==
    [pc |-> "off", now_utc |-> None, schedule |-> None, should_run |-> FALSE,
     slept_at |-> 0,
     \* history, for the properties
     cycles |-> 0, attempted |-> FALSE, returned |-> FALSE, faults |-> {},
     attempts |-> <<>>]

\* the application before create_app is called
AppOff ==
    [pc |-> "off", log_route |-> FALSE,
     \* history, for the properties: the schedule create_app read, if any
     schedule |-> None, faults |-> {}]

\* the application once create_app has returned
AppServing == [AppOff EXCEPT !.pc = "serving", !.log_route = TRUE]

\* the state in which no settings operation has been made
NoSettings ==
    /\ document = None
    /\ manager_config = None
    /\ called = None

\* the state in which no logging context is used, no worker thread was
\* started, no settings request races, no log request was made and the UDP
\* handler was not started
NoHandlers ==
    /\ context = None
    /\ threads = None
    /\ race = None
    /\ endpoint = None
    /\ udp = None

\* the state in which no worker runs, no duration is being parsed, the
\* application is not being set up and no settings operation is made
Elsewhere ==
    /\ schedule_file = None
    /\ schedule_cached = None
    /\ stop_event = FALSE
    /\ worker = WorkerOff
    /\ duration_input = <<>>
    /\ parsed = None
    /\ app = AppOff
    /\ NoSettings

Init ==
    /\ \E n \in 0..MaxId : store \in StoresOf(n) /\ next_id = n + 1
    /\ now = Clock0
    /\ ticks = 0
    /\ archives = << >>
    /\ config \in Configs
    /\ pass = [p \in Passes |-> IdlePass]
    /\ info = None
    /\ NoHandlers
    /\ Elsewhere

----------------------------------------------------------------------------
(* cleanup_logs, one step per access to the store *)

\* lines 66-81 for a dry run, which needs no further access to the store
Proceed(pr) ==
    IF pr.dry_run
    THEN [pr EXCEPT !.pc = "done",
                    !.result = Result(Cardinality(pr.record_ids), pr.export_file,
                                      pr.time_based_ids, pr.count_based_ids, TRUE)]
    ELSE [pr EXCEPT !.pc = "delete"]

\* trigger_cleanup (dry_run from the request), preview_cleanup (dry_run = TRUE):
\* cleanup_logs reads the config and opens its session
StartPass(p, dry_run) ==
    /\ pass[p].pc = "idle"
    /\ pass' = [pass EXCEPT ![p] =
            [IdlePass EXCEPT !.pc = "select_time", !.dry_run = dry_run,
                             !.config = config, !.store0 = store]]
    /\ UNCHANGED <<store, next_id, now, ticks, archives, config, handler_vars, info,
                 scheduler_vars, parser_vars, app_vars, settings_vars>>

\* lines 36-38: get_config or the opening of the session raises, and
\* cleanup_logs with it
CleanupRaises(p) ==
    /\ pass[p].pc = "idle"
    /\ pass' = [pass EXCEPT ![p] =
            [IdlePass EXCEPT !.pc = "raised", !.config = config, !.store0 = store,
                             !.faults = {"session"}]]
    /\ UNCHANGED <<store, next_id, now, ticks, archives, config, handler_vars, info,
                   scheduler_vars, parser_vars, app_vars, settings_vars>>

\* lines 40-42
SelectTime(p) ==
    /\ pass[p].pc = "select_time"
    /\ LET cfg == pass[p].config.time_based IN
       \E query_fails \in (IF cfg.enabled /\ ~parse_duration(cfg.duration).raised
                           THEN BOOLEAN ELSE {FALSE}) :
         LET unparsed == cfg.enabled /\ parse_duration(cfg.duration).raised
             failed == unparsed \/ query_fails
             ids == IF cfg.enabled
                    THEN get_time_based_deletion_ids(store, cfg.duration, now, query_fails)
                    ELSE {}
         IN  pass' = [pass EXCEPT ![p] =
                 [@ EXCEPT !.pc = after_selection(failed, "select_count"),
                           !.time_based_ids = ids,
                           !.time_view = [store |-> store, now |-> now],
                           !.faults = @ \cup (IF unparsed THEN {"parse"} ELSE {})
                                        \cup (IF query_fails THEN {"time"} ELSE {})]]
    /\ UNCHANGED <<store, next_id, now, ticks, archives, config, handler_vars, info,
                 scheduler_vars, parser_vars, app_vars, settings_vars>>

\* lines 45-65: the count-based selection, the union, the zero result
SelectCount(p) ==
    /\ pass[p].pc = "select_count"
    /\ LET cfg == pass[p].config IN
       \E query_fails \in (IF cfg.count_based.enabled THEN BOOLEAN ELSE {FALSE}) :
       \E ids \in (IF cfg.count_based.enabled
                   THEN get_count_based_deletion_ids(store, cfg.count_based.max_entries,
                                                     query_fails)
                   ELSE {{}}) :
         LET union == deletion_ids(pass[p].time_based_ids, ids)
             next == after_selection(query_fails, "union")
             pr == [pass[p] EXCEPT !.count_based_ids = ids,
                                   !.count_view = [store |-> store],
                                   !.record_ids = union,
                                   !.faults = @ \cup (IF query_fails THEN {"count"} ELSE {})]
         IN  pass' = [pass EXCEPT ![p] =
                 IF next # "union" THEN [pr EXCEPT !.pc = next]
                 ELSE IF union = {} THEN [pr EXCEPT !.pc = "done", !.result = ZeroResult]
                 ELSE IF export_wanted(cfg, pr.dry_run) THEN [pr EXCEPT !.pc = "export"]
                 ELSE Proceed(pr)]
    /\ UNCHANGED <<store, next_id, now, ticks, archives, config, handler_vars, info,
                 scheduler_vars, parser_vars, app_vars, settings_vars>>

\* line 64, _export_records: it succeeds, or fails before the archive is
\* opened (mkdir, the query), or fails after (the CSV, the write)
Export(p) ==
    /\ pass[p].pc = "export"
    /\ \E outcome \in {"ok", "fails_before_open", "fails_after_open"} :
         LET name == archive_name(pass[p].config.export.include_timestamp, now)
             next == after_export(outcome # "ok")
             pr == [pass[p] EXCEPT
                       !.export_file = IF outcome = "ok" THEN name ELSE None,
                       !.exported = (outcome = "ok"),
                       !.faults = @ \cup (IF outcome = "ok" THEN {} ELSE {"export"})]
         IN  /\ archives' =
                   CASE outcome = "ok" ->
                          write_archive(archives, name, rows_in(store, pass[p].record_ids))
                     [] outcome = "fails_after_open" -> write_archive(archives, name, {})
                     [] OTHER -> archives
             /\ pass' = [pass EXCEPT ![p] =
                   IF next # "delete" THEN [pr EXCEPT !.pc = next] ELSE Proceed(pr)]
    /\ UNCHANGED <<store, next_id, now, ticks, config, handler_vars, info,
                 scheduler_vars, parser_vars, app_vars, settings_vars>>

\* _delete_records: one iteration of its loop, the delete and its commit; the
\* delete or the commit may raise, which ends the loop in the except branch
DeleteBatch(p) ==
    /\ pass[p].pc = "delete"
    /\ pass[p].record_ids # {}
    /\ \E batch_ids \in batches_of(pass[p].record_ids) :
       \E outcome \in {"ok", "delete_raises", "commit_raises"} :
         LET hit == rows_in(store, batch_ids)
             deleted_count == rowcount(store, batch_ids)
             pr == pass[p]
         IN  IF outcome = "ok"
             THEN LET total == pr.total_deleted + deleted_count
                      rest == pr.record_ids \ batch_ids
                      committed == [pr EXCEPT
                          !.total_deleted = total,
                          !.record_ids = rest,
                          !.batches = Append(@, [requested |-> Cardinality(batch_ids),
                                                 deleted |-> deleted_count]),
                          !.removed = @ \cup hit]
                  IN  /\ store' = store \ hit
                      /\ pass' = [pass EXCEPT ![p] =
                            IF rest # {} THEN committed
                            ELSE [committed EXCEPT
                                    !.pc = "done",
                                    !.result = Result(total, pr.export_file,
                                        pr.time_based_ids, pr.count_based_ids, FALSE)]]
             ELSE /\ store' = rollback(store, IF outcome = "commit_raises" THEN hit ELSE {})
                  /\ pass' = [pass EXCEPT ![p] =
                        [pr EXCEPT
                            !.pc = "done",
                            !.faults = @ \cup {outcome},
                            !.failed_batch = batch_ids,
                            !.result = Result(delete_error_result(pr.total_deleted),
                                pr.export_file, pr.time_based_ids,
                                pr.count_based_ids, FALSE)]]
    /\ UNCHANGED <<next_id, now, ticks, archives, config, handler_vars, info,
                 scheduler_vars, parser_vars, app_vars, settings_vars>>

----------------------------------------------------------------------------
(* get_retention_info *)

\* the statistics of get_retention_info on one view of the store, given the
\* answer count_ids of its count-based selection; the duration is parsed
\* outside any handler (line 223), so a ValueError leaves the function
get_retention_info(cfg, rows, t, count_ids) ==
    LET total_records == Cardinality(rows)
        duration_seconds == parse_duration(cfg.time_based.duration)
    IN  IF cfg.time_based.enabled /\ duration_seconds.raised THEN [raised |-> TRUE]
        ELSE [raised |-> FALSE,
              records_to_delete_time_based |->
                  IF cfg.time_based.enabled
                  THEN Cardinality(older_than(rows, t - duration_seconds.value))
                  ELSE 0,
              records_to_delete_count_based |->
                  IF cfg.count_based.enabled /\ total_records > cfg.count_based.max_entries
                  THEN total_records - cfg.count_based.max_entries
                  ELSE 0,
              total_records_to_delete |->
                  Cardinality(
                      (IF cfg.time_based.enabled
                       THEN get_time_based_deletion_ids(rows, cfg.time_based.duration, t, FALSE)
                       ELSE {})
                      \cup count_ids)]

\* GET settings, the show command: one call of get_retention_info
GetRetentionInfo ==
    /\ \E count_ids \in (IF config.count_based.enabled
                         THEN get_count_based_deletion_ids(store,
                                  config.count_based.max_entries, FALSE)
                         ELSE {{}}) :
         info' = [view |-> [store |-> store, now |-> now],
                  answer |-> get_retention_info(config, store, now, count_ids)]
    /\ info' # info
    /\ UNCHANGED <<store, next_id, now, ticks, archives, config, handler_vars, pass,
                 scheduler_vars, parser_vars, app_vars, settings_vars>>

----------------------------------------------------------------------------
(* Environment: ingestion and the clock *)

\* log_endpoint: one row is added and committed, with the client's timestamp.
\* The rows stored before a pass began are those of Init, so ingestion is
\* followed only while a pass runs.
Insert ==
    /\ \E p \in Passes : Active(p)
    /\ \E i \in new_ids(store, next_id) : \E ts \in Timestamps :
         /\ i <= MaxId
         /\ store' = store \cup {[id |-> i, timestamp |-> ts]}
         /\ next_id' = IF i = next_id THEN next_id + 1 ELSE next_id
    /\ pass' = [p \in Passes |->
                  IF Active(p) THEN [pass[p] EXCEPT !.concurrent_writes = @ + 1]
                  ELSE pass[p]]
    /\ UNCHANGED <<now, ticks, archives, config, handler_vars, info,
                 scheduler_vars, parser_vars, app_vars, settings_vars>>

\* an hour passes
Tick ==
    /\ ticks < MaxTicks
    /\ ticks' = ticks + 1
    /\ now' = now + 3600
    /\ UNCHANGED <<store, next_id, archives, config, handler_vars, pass, info,
                 scheduler_vars, parser_vars, app_vars, settings_vars>>

----------------------------------------------------------------------------
(* Background worker: retention_background_thread, and its start and stop *)

\* Event.wait(3600): the period of the worker's sleep
WakePeriod == 3600

\* variant: a first run also waits for the interval
first_run_waits(interval_hours) == interval_hours = 0

\* lines 54-57: never run before
first_run(interval_hours) == TRUE

\* variant: strictly more than the interval
overdue(seconds_since_last, interval_hours) ==
    seconds_since_last > interval_hours * 3600

\* lines 65-68: hours_since_last >= interval_hours
due(seconds_since_last, interval_hours) ==
    seconds_since_last >= interval_hours * 3600

\* variant: a timestamp that does not parse skips the pass
skip_on_parse_error(text) == FALSE

\* lines 71-73: the except branch of the parse
run_on_parse_error(text) == TRUE

\* lines 50-73
should_run(sched, now_utc) ==
    IF sched.last_execution = None THEN first_run(sched.interval_hours)
    ELSE LET last_execution == fromisoformat(replace_Z(sched.last_execution))
         IN  IF last_execution.raised THEN run_on_parse_error(sched.last_execution)
             ELSE due(total_seconds(now_utc, assume_utc(last_execution.value)),
                      sched.interval_hours)

\* variant: the exception leaves the loop and ends the thread
cycle_error_ends_thread(fault) == "crashed"

\* lines 90-94: both handlers of the loop log the exception; the worker goes
\* on to its sleep
after_cycle_error(fault) == "sleep"

Asleep(w, t) == [w EXCEPT !.pc = "sleep", !.slept_at = t]

\* variant: the wait lasts its whole timeout
wait_ignores_event(event_set, slept_at, t) == t >= slept_at + WakePeriod

\* Event.wait(3600) returns when the event is set or the timeout has passed
wait_returns(event_set, slept_at, t) == event_set \/ t >= slept_at + WakePeriod

\* line 45: the loop condition; a new cycle begins unless the event is set
CheckStop ==
    /\ worker.pc = "loop"
    /\ IF stop_event
       THEN /\ worker' = [worker EXCEPT !.pc = "stopped"]
            /\ pass' = pass
       ELSE /\ worker' = [worker EXCEPT !.pc = "cycle", !.cycles = @ + 1,
                                        !.now_utc = None, !.schedule = None,
                                        !.should_run = FALSE, !.attempted = FALSE,
                                        !.returned = FALSE]
            /\ pass' = [pass EXCEPT !["scheduled"] = IdlePass]
    /\ UNCHANGED <<store, next_id, now, ticks, archives, config, handler_vars, info,
                   schedule_file, schedule_cached, stop_event,
                   parser_vars, app_vars, settings_vars>>

\* lines 47-75: the config is read and the decision taken
Decide ==
    /\ worker.pc = "cycle"
    /\ LET got == get_config(schedule_cached, schedule_file)
           now_utc == utcnow(now)
       IN  /\ schedule_cached' = got.cached
           /\ worker' =
                IF got.raised
                THEN [Asleep(worker, now) EXCEPT
                        !.pc = after_cycle_error("config"),
                        !.faults = @ \cup {"config"}]
                ELSE LET run == should_run(got.schedule, now_utc)
                         unparsed == /\ got.schedule.last_execution # None
                                     /\ fromisoformat(replace_Z(
                                            got.schedule.last_execution)).raised
                         w == [worker EXCEPT
                                 !.now_utc = now_utc, !.schedule = got.schedule,
                                 !.should_run = run,
                                 !.faults = @ \cup (IF unparsed THEN {"parse"} ELSE {})]
                     IN  IF run THEN [w EXCEPT !.pc = "run", !.attempted = TRUE,
                                               !.attempts = Append(@, now)]
                         ELSE Asleep(w, now)
    /\ UNCHANGED <<store, next_id, now, ticks, archives, config, handler_vars, pass, info,
                   schedule_file, stop_event, parser_vars, app_vars, settings_vars>>

\* lines 77-78: the worker's call of cleanup_logs and the steps of that pass
RunPass ==
    /\ worker.pc = "run"
    /\ \/ StartPass("scheduled", FALSE)
       \/ CleanupRaises("scheduled")
       \/ SelectTime("scheduled")
       \/ SelectCount("scheduled")
       \/ Export("scheduled")
       \/ DeleteBatch("scheduled")

\* lines 78-88: cleanup_logs has returned and the timestamp of this cycle is
\* saved; an exception of the save is caught by the handler of line 90
CleanupReturned ==
    /\ worker.pc = "run"
    /\ pass["scheduled"].pc = "done"
    /\ \E outcome \in {"ok", "fails_before_open", "fails_after_open"} :
         LET saved == update_last_execution(schedule_cached, schedule_file,
                                            isoformat(worker.now_utc), outcome)
             w == [Asleep(worker, now) EXCEPT !.returned = TRUE]
         IN  /\ schedule_file' = saved.file
             /\ schedule_cached' = saved.cached
             /\ worker' = IF saved.raised
                          THEN [w EXCEPT !.pc = after_cycle_error("save"),
                                         !.faults = @ \cup {"save"}]
                          ELSE w
    /\ UNCHANGED <<store, next_id, now, ticks, archives, config, handler_vars, pass, info,
                   stop_event, parser_vars, app_vars, settings_vars>>

\* lines 90-91: cleanup_logs raised; the statement of line 81 is not reached
CleanupRaised ==
    /\ worker.pc = "run"
    /\ pass["scheduled"].pc = "raised"
    /\ worker' = [Asleep(worker, now) EXCEPT
                    !.pc = after_cycle_error("cleanup"),
                    !.faults = @ \cup {"cleanup"}]
    /\ UNCHANGED <<store, next_id, now, ticks, archives, config, handler_vars, pass, info,
                   schedule_file, schedule_cached, stop_event,
                   parser_vars, app_vars, settings_vars>>

\* line 97: wait returns when the event is set or the period has passed
WakeUp ==
    /\ worker.pc = "sleep"
    /\ wait_returns(stop_event, worker.slept_at, now)
    /\ worker' = [worker EXCEPT !.pc = "loop"]
    /\ UNCHANGED <<store, next_id, now, ticks, archives, config, handler_vars, pass, info,
                   schedule_file, schedule_cached, stop_event,
                   parser_vars, app_vars, settings_vars>>

\* main, lines 217-218: retention_stop_event.set()
SetStop ==
    /\ worker.pc # "off"
    /\ ~stop_event
    /\ stop_event' = TRUE
    /\ UNCHANGED <<store, next_id, now, ticks, archives, config, handler_vars, pass, info,
                   schedule_file, schedule_cached, worker,
                   parser_vars, app_vars, settings_vars>>

\* main, lines 219-220, and line 178: join gives up after its timeout, main
\* returns and the interpreter exits, which ends the daemon thread where it is
ProcessExit ==
    /\ stop_event
    /\ worker.pc \notin {"off", "stopped", "killed", "crashed"}
    /\ worker' = [worker EXCEPT !.pc = "killed"]
    /\ UNCHANGED <<store, next_id, now, ticks, archives, config, handler_vars, pass, info,
                   schedule_file, schedule_cached, stop_event,
                   parser_vars, app_vars, settings_vars>>

----------------------------------------------------------------------------
(* Application startup: create_app *)

\* variant: the startup pass does not depend on the setting
startup_always(sched) == TRUE

\* line 144: if config.schedule.on_startup
startup_wanted(sched) == sched.on_startup

\* lines 152-153: the handler of the startup block logs the exception
after_startup_error(fault) == "register"

\* lines 141-145: the config is read and on_startup examined
ReadStartupConfig ==
    /\ app.pc = "off"
    /\ LET got == get_config(schedule_cached, schedule_file)
       IN  /\ schedule_cached' = got.cached
           /\ app' =
                IF got.raised
                THEN [app EXCEPT !.pc = after_startup_error("config"),
                                 !.faults = @ \cup {"config"}]
                ELSE [app EXCEPT !.schedule = got.schedule,
                                 !.pc = IF startup_wanted(got.schedule)
                                        THEN "startup_pass" ELSE "register"]
    /\ UNCHANGED <<store, next_id, now, ticks, archives, config, handler_vars, pass, info,
                   schedule_file, stop_event, worker, parser_vars, settings_vars>>

\* line 146: the call of cleanup_logs and the steps of that pass
StartupPass ==
    /\ app.pc = "startup_pass"
    /\ \/ StartPass("startup", FALSE)
       \/ CleanupRaises("startup")
       \/ SelectTime("startup")
       \/ SelectCount("startup")
       \/ Export("startup")
       \/ DeleteBatch("startup")

\* variant: the startup block records the time of its pass as last_execution
StartupReturnedSaves ==
    /\ app.pc = "startup_pass"
    /\ pass["startup"].pc \in {"done", "raised"}
    /\ app' = [app EXCEPT !.pc = "register"]
    /\ LET saved == update_last_execution(schedule_cached, schedule_file,
                                          isoformat(utcnow(now)), "ok")
       IN  schedule_file' = saved.file /\ schedule_cached' = saved.cached
    /\ UNCHANGED <<store, next_id, now, ticks, archives, config, handler_vars, pass, info,
                   stop_event, worker, parser_vars, settings_vars>>

\* lines 147-153: cleanup_logs has returned or raised
StartupReturned ==
    /\ app.pc = "startup_pass"
    /\ pass["startup"].pc \in {"done", "raised"}
    /\ app' = IF pass["startup"].pc = "raised"
              THEN [app EXCEPT !.pc = after_startup_error("cleanup"),
                               !.faults = @ \cup {"cleanup"}]
              ELSE [app EXCEPT !.pc = "register"]
    /\ UNCHANGED <<store, next_id, now, ticks, archives, config, handler_vars, pass, info,
                   scheduler_vars, parser_vars, settings_vars>>

\* lines 155-162: the log endpoint and the blueprints are registered
RegisterRoutes ==
    /\ app.pc = "register"
    /\ app' = [app EXCEPT !.pc = "start_worker", !.log_route = TRUE]
    /\ UNCHANGED <<store, next_id, now, ticks, archives, config, handler_vars, pass, info,
                   scheduler_vars, parser_vars, settings_vars>>

\* lines 174-184: a new event is made and the thread started, unless the
\* start raises; create_app returns
StartWorker ==
    /\ app.pc = "start_worker"
    /\ stop_event' = FALSE
    /\ \E started \in BOOLEAN :
         worker' = IF started THEN [worker EXCEPT !.pc = "loop"] ELSE worker
    /\ app' = [app EXCEPT !.pc = "serving"]
    /\ UNCHANGED <<store, next_id, now, ticks, archives, config, handler_vars, pass, info,
                   schedule_file, schedule_cached, parser_vars, settings_vars>>

\* a request to the log endpoint, once it is registered
LogEndpoint ==
    /\ app.log_route
    /\ Insert

----------------------------------------------------------------------------

\* one pass with ingestion; the clock stands still while it runs
Next ==
    \/ \E dry_run \in BOOLEAN : StartPass("manual", dry_run)
    \/ CleanupRaises("manual")
    \/ \E p \in Passes : SelectTime(p)
    \/ \E p \in Passes : SelectCount(p)
    \/ \E p \in Passes : Export(p)
    \/ \E p \in Passes : DeleteBatch(p)
    \/ Insert

Spec == Init /\ [][Next]_vars

\* stores whose rows all match a one-hour retention, large enough for two
\* full batches and a partial one
InitBatch ==
    /\ \E n \in 0..(2 * batch_size + 1) :
         /\ store = {[id |-> i, timestamp |-> Clock0 - 7200] : i \in 1..n}
         /\ next_id = n + 1
    /\ now = Clock0
    /\ ticks = 0
    /\ archives = << >>
    /\ config \in {c \in Configs : /\ c.time_based = [enabled |-> TRUE, duration |-> <<"1", "h">>]
                                   /\ ~c.count_based.enabled}
    /\ pass = [p \in Passes |-> IdlePass]
    /\ info = None
    /\ NoHandlers
    /\ Elsewhere

SpecBatch == InitBatch /\ [][Next]_vars

\* the passes that run side by side: one asked for by a request, and the one
\* of the worker
Concurrent == {"manual", "scheduled"}

\* a store of rows that all match a one-hour retention
InitTwo ==
    /\ store = {[id |-> i, timestamp |-> Clock0 - 7200] : i \in 1..MaxId}
    /\ next_id = MaxId + 1
    /\ now = Clock0
    /\ ticks = 0
    /\ archives = << >>
    /\ config \in {c \in Configs : /\ c.time_based = [enabled |-> TRUE, duration |-> <<"1", "h">>]
                                   /\ ~c.count_based.enabled
                                   /\ c.export.include_timestamp}
    /\ pass = [p \in Passes |-> IdlePass]
    /\ info = None
    /\ NoHandlers
    /\ Elsewhere

\* two passes that delete
NextTwo ==
    \/ \E p \in Concurrent : StartPass(p, FALSE)
    \/ \E p \in Concurrent : SelectTime(p)
    \/ \E p \in Concurrent : SelectCount(p)
    \/ \E p \in Concurrent : Export(p)
    \/ \E p \in Concurrent : DeleteBatch(p)

SpecTwo == InitTwo /\ [][NextTwo]_vars

\* the same store, with the export disabled
InitIngest ==
    /\ InitTwo
    /\ ~config.export.enabled

\* two passes that delete without an export, with ingestion
NextIngest ==
    \/ \E p \in Concurrent : StartPass(p, FALSE)
    \/ \E p \in Concurrent : SelectTime(p)
    \/ \E p \in Concurrent : SelectCount(p)
    \/ \E p \in Concurrent : DeleteBatch(p)
    \/ Insert

SpecIngest == InitIngest /\ [][NextIngest]_vars

\* previews and get_retention_info side by side
NextInfo ==
    \/ StartPass("manual", TRUE)
    \/ \E p \in Passes : SelectTime(p)
    \/ \E p \in Passes : SelectCount(p)
    \/ GetRetentionInfo
    \/ Tick

SpecInfo == Init /\ [][NextInfo]_vars

\* the values of the schedule section the worker may find
IntervalHours == {0, 1, 2}
LastExecutions ==
    {None, NoTimestamp}
        \cup {iso(Clock0 - 3600 * k, "+00:00") : k \in 0..3}
        \cup {iso(Clock0 - 3600, "Z"), iso(Clock0 - 3600, ""), iso(Clock0, "+01:00")}
ScheduleFiles ==
    {None, EmptyDocument}
        \cup [on_startup : {TRUE}, interval_hours : IntervalHours,
              last_execution : LastExecutions]

\* the worker has been started (create_app, lines 175-180); the rows all
\* match a one-hour retention
InitSched ==
    /\ \E n \in 0..MaxId :
         /\ store = {[id |-> i, timestamp |-> Clock0 - 7200] : i \in 1..n}
         /\ next_id = n + 1
    /\ now = Clock0
    /\ ticks = 0
    /\ archives = << >>
    /\ config \in {c \in Configs : /\ c.time_based = [enabled |-> TRUE, duration |-> <<"1", "h">>]
                                   /\ ~c.count_based.enabled
                                   /\ c.export.include_timestamp}
    /\ pass = [p \in Passes |-> IdlePass]
    /\ info = None
    /\ NoHandlers
    /\ schedule_file \in ScheduleFiles
    /\ schedule_cached = None
    /\ stop_event = FALSE
    /\ worker = [WorkerOff EXCEPT !.pc = "loop"]
    /\ duration_input = <<>>
    /\ parsed = None
    /\ app = AppServing
    /\ NoSettings

\* the worker, the clock, and the shutdown of the server
NextSched ==
    \/ CheckStop
    \/ Decide
    \/ RunPass
    \/ CleanupReturned
    \/ CleanupRaised
    \/ WakeUp
    \/ SetStop
    \/ ProcessExit
    \/ Tick

SpecSched == InitSched /\ [][NextSched]_vars

\* the documents create_app may find
StartupFiles ==
    {None, EmptyDocument}
        \cup [on_startup : BOOLEAN, interval_hours : {0, 2},
              last_execution : {None, iso(Clock0, "+00:00"),
                                iso(Clock0 - 7200, "+00:00")}]

\* create_app is about to be called; the rows all match a one-hour retention
InitApp ==
    /\ \E n \in {0, MaxId} :
         /\ store = {[id |-> i, timestamp |-> Clock0 - 7200] : i \in 1..n}
         /\ next_id = n + 1
    /\ now = Clock0
    /\ ticks = 0
    /\ archives = << >>
    /\ config \in {c \in Configs : /\ c.time_based = [enabled |-> TRUE, duration |-> <<"1", "h">>]
                                   /\ ~c.count_based.enabled
                                   /\ c.export.include_timestamp}
    /\ pass = [p \in Passes |-> IdlePass]
    /\ info = None
    /\ NoHandlers
    /\ schedule_file \in StartupFiles
    /\ schedule_cached = None
    /\ stop_event = FALSE
    /\ worker = WorkerOff
    /\ duration_input = <<>>
    /\ parsed = None
    /\ app = AppOff
    /\ NoSettings

\* the startup, then the first cycle of the worker, with ingestion
NextApp ==
    \/ ReadStartupConfig
    \/ StartupPass
    \/ StartupReturned
    \/ RegisterRoutes
    \/ StartWorker
    \/ LogEndpoint
    \/ CheckStop
    \/ Decide
    \/ RunPass
    \/ CleanupReturned
    \/ CleanupRaised

SpecApp == InitApp /\ [][NextApp]_vars

\* the documents the worker may find when the server is stopped
StopFiles ==
    {None, EmptyDocument}
        \cup [on_startup : {TRUE}, interval_hours : {0, 2},
              last_execution : {None, iso(Clock0, "+00:00")}]

\* create_app has registered its routes and is about to start the worker;
\* count-based retention finds rows to delete
InitStop ==
    /\ store = {[id |-> i, timestamp |-> Clock0 - 7200] : i \in 1..MaxId}
    /\ next_id = MaxId + 1
    /\ now = Clock0
    /\ ticks = 0
    /\ archives = << >>
    /\ config \in {c \in Configs : /\ ~c.time_based.enabled
                                   /\ c.count_based = [enabled |-> TRUE, max_entries |-> 1]
                                   /\ c.export.include_timestamp}
    /\ pass = [p \in Passes |-> IdlePass]
    /\ info = None
    /\ NoHandlers
    /\ schedule_file \in StopFiles
    /\ schedule_cached = None
    /\ stop_event = FALSE
    /\ worker = WorkerOff
    /\ duration_input = <<>>
    /\ parsed = None
    /\ app = [AppOff EXCEPT !.pc = "start_worker", !.log_route = TRUE]
    /\ NoSettings

\* the start of the worker, its cycles, the clock, and the shutdown
NextStop ==
    \/ StartWorker
    \/ CheckStop
    \/ Decide
    \/ RunPass
    \/ CleanupReturned
    \/ CleanupRaised
    \/ WakeUp
    \/ SetStop
    \/ ProcessExit
    \/ Tick

\* a step of the worker thread
WorkerStep ==
    \/ CheckStop
    \/ Decide
    \/ RunPass
    \/ CleanupReturned
    \/ CleanupRaised
    \/ WakeUp

\* the thread is scheduled: it takes a step when it can; nothing is assumed of
\* the clock, of the shutdown or of the length of the process exit
SpecStop == InitStop /\ [][NextStop]_vars /\ WF_vars(WorkerStep)

----------------------------------------------------------------------------
(* Calls of parse_duration *)

\* _get_default_config without the schedule section; the duration '7d'
DefaultConfig ==
    [time_based  |-> [enabled |-> TRUE, duration |-> <<"7", "d">>],
     count_based |-> [enabled |-> FALSE, max_entries |-> 10000],
     export      |-> [enabled |-> TRUE, include_timestamp |-> TRUE]]

\* str(n) of a natural number
DigitChar(i) ==
    CASE i = 0 -> "0" [] i = 1 -> "1" [] i = 2 -> "2" [] i = 3 -> "3"
      [] i = 4 -> "4" [] i = 5 -> "5" [] i = 6 -> "6" [] i = 7 -> "7"
      [] i = 8 -> "8" [] i = 9 -> "9"

RECURSIVE str(_)
str(n) == IF n < 10 THEN <<DigitChar(n)>> ELSE str(n \div 10) \o <<DigitChar(n % 10)>>

\* the text of one component; n = -1 stands for a component that is absent
Component(n, unit) == IF n = -1 THEN <<>> ELSE str(n) \o <<unit>>

\* the duration string with the components in the order d, h, m
Compose(d, h, m) == Component(d, "d") \o Component(h, "h") \o Component(m, "m")

\* the characters of the strings tried exhaustively
Alphabet == {"0", "1", "2", "d", "h", "m", "x", " "}

StringsUpTo(n) == UNION {[1..k -> Alphabet] : k \in 0..n}

\* fixed strings worth trying: those of the docstring and of the test, ones
\* with text after a valid prefix, and ones with no valid component
Examples ==
    { <<"7", "d">>, <<"2", "d", "1", "2", "h">>, <<"1", "h", "3", "0", "m">>,
      <<"4", "5", "m">>, <<"0", "m">>, <<>>,
      <<"g", "a", "r", "b", "a", "g", "e">>,
      <<"7", "d", "x", "y", "z">>, <<"1", "h", "3", "0">>,
      <<"1", "2", "h", "3", "d">> }

\* the strings parse_duration is called with
DurationStrings ==
    StringsUpTo(MaxLen) \cup Examples
        \cup {Compose(d, h, m) : d, h, m \in -1..MaxNumber}

\* a string is about to be parsed
InitParse ==
    /\ store = {}
    /\ next_id = 1
    /\ now = Clock0
    /\ ticks = 0
    /\ archives = << >>
    /\ config = DefaultConfig
    /\ pass = [p \in Passes |-> IdlePass]
    /\ info = None
    /\ NoHandlers
    /\ schedule_file = None
    /\ schedule_cached = None
    /\ stop_event = FALSE
    /\ worker = WorkerOff
    /\ duration_input \in DurationStrings
    /\ parsed = None
    /\ app = AppOff
    /\ NoSettings

\* validate_duration, update_retention_settings, the update command: one call
\* of parse_duration
ParseDuration ==
    /\ parsed = None
    /\ parsed' = parse_duration(duration_input)
    /\ UNCHANGED <<store, next_id, now, ticks, archives, config, handler_vars, pass, info,
                   scheduler_vars, duration_input, app_vars, settings_vars>>

NextParse == ParseDuration

SpecParse == InitParse /\ [][NextParse]_vars

----------------------------------------------------------------------------
(* The configuration as a whole: RetentionConfig, its document and the     *)
(* object the config manager holds                                         *)

\* _get_default_config
get_default_config ==
    [time_based  |-> [enabled |-> TRUE, duration |-> <<"7", "d">>],
     count_based |-> [enabled |-> FALSE, max_entries |-> 10000],
     export      |-> [enabled |-> TRUE, format |-> "csv_zip",
                      output_directory |-> "exports", include_timestamp |-> TRUE],
     schedule    |-> DefaultSchedule]

\* dict.get(key, default) on a mapping of the document
Get(mapping, key, default) == IF key \in DOMAIN mapping THEN mapping[key] ELSE default

\* a mapping without keys
EmptyMapping == [key \in {} |-> None]

\* save_config, lines 103-125: the document built from the config; yaml.dump
\* and yaml.safe_load keep the strings, numbers, booleans and None of the
\* fields as they are
config_data(cfg) ==
    [retention |->
        [time_based  |-> [enabled |-> cfg.time_based.enabled,
                          duration |-> cfg.time_based.duration],
         count_based |-> [enabled |-> cfg.count_based.enabled,
                          max_entries |-> cfg.count_based.max_entries],
         export      |-> [enabled |-> cfg.export.enabled,
                          format |-> cfg.export.format,
                          output_directory |-> cfg.export.output_directory,
                          include_timestamp |-> cfg.export.include_timestamp],
         schedule    |-> [on_startup |-> cfg.schedule.on_startup,
                          interval_hours |-> cfg.schedule.interval_hours,
                          last_execution |-> cfg.schedule.last_execution]]]

\* load_config, lines 63-97: the config read from a document that is a mapping
from_config_data(data) ==
    LET retention_data == Get(data, "retention", EmptyMapping)
        time_based_data == Get(retention_data, "time_based", EmptyMapping)
        count_based_data == Get(retention_data, "count_based", EmptyMapping)
        export_data == Get(retention_data, "export", EmptyMapping)
        schedule_data == Get(retention_data, "schedule", EmptyMapping)
    IN  [time_based  |-> [enabled |-> Get(time_based_data, "enabled", TRUE),
                          duration |-> Get(time_based_data, "duration", <<"7", "d">>)],
         count_based |-> [enabled |-> Get(count_based_data, "enabled", FALSE),
                          max_entries |-> Get(count_based_data, "max_entries", 10000)],
         export      |-> [enabled |-> Get(export_data, "enabled", TRUE),
                          format |-> Get(export_data, "format", "csv_zip"),
                          output_directory |-> Get(export_data, "output_directory", "exports"),
                          include_timestamp |-> Get(export_data, "include_timestamp", TRUE)],
         schedule    |-> [on_startup |-> Get(schedule_data, "on_startup", TRUE),
                          interval_hours |-> Get(schedule_data, "interval_hours", 24),
                          last_execution |-> Get(schedule_data, "last_execution", None)]]

\* load_config on the whole document: without a file the defaults, which are
\* not kept; an empty document raises; otherwise the config read is kept
load_config_document(file) ==
    IF file = None
    THEN [raised |-> FALSE, config |-> get_default_config, cached |-> None]
    ELSE IF file = EmptyDocument THEN [raised |-> TRUE, cached |-> None]
    ELSE [raised |-> FALSE, config |-> from_config_data(file),
          cached |-> from_config_data(file)]

\* variant: the document is read at every call
get_config_rereads(cached, file) == load_config_document(file)

\* get_config on the whole config: the object held, or the one loaded
get_config_object(cached, file) ==
    IF cached = None THEN load_config_document(file)
    ELSE [raised |-> FALSE, config |-> cached, cached |-> cached]

\* save_config: the document and the object held afterwards; it may raise
\* before the file is opened (mkdir, open) or after (yaml.dump), which leaves
\* the file truncated; self._config is set last
save_config(cached, file, cfg, outcome) ==
    CASE outcome = "ok" -> [raised |-> FALSE, file |-> config_data(cfg), cached |-> cfg]
      [] outcome = "fails_before_open" -> [raised |-> TRUE, file |-> file, cached |-> cached]
      [] outcome = "fails_after_open" ->
            [raised |-> TRUE, file |-> EmptyDocument, cached |-> cached]

SaveOutcomes == {"ok", "fails_before_open", "fails_after_open"}

\* an assignment to a field of the object get_config returned changes the
\* object the manager holds when that is the one returned; a config made by
\* load_config without a file is held by nobody
held_after(cached, changed) == IF cached = None THEN None ELSE changed

\* variant: the schedule section is made anew
with_new_schedule(cfg, timestamp) ==
    [cfg EXCEPT !.schedule = [DefaultSchedule EXCEPT !.last_execution = timestamp]]

\* config.schedule.last_execution = timestamp
with_last_execution(cfg, timestamp) == [cfg EXCEPT !.schedule.last_execution = timestamp]

\* update_last_execution on the whole config
update_config_last_execution(cached, file, timestamp, outcome) ==
    LET got == get_config_object(cached, file)
    IN  IF got.raised THEN [raised |-> TRUE, file |-> file, cached |-> got.cached]
        ELSE LET cfg == with_last_execution(got.config, timestamp)
             IN  save_config(held_after(got.cached, cfg), file, cfg, outcome)

----------------------------------------------------------------------------
(* Calls of the config manager *)

\* the configs save_config is called with: each section as in the defaults
\* or with every field different; save_config checks nothing
SavedConfigs ==
    [time_based  : {get_default_config.time_based,
                    [enabled |-> FALSE, duration |-> <<"1", "h">>]},
     count_based : {get_default_config.count_based,
                    [enabled |-> TRUE, max_entries |-> 0]},
     export      : {get_default_config.export,
                    [enabled |-> FALSE, format |-> "csv_zip",
                     output_directory |-> "archive", include_timestamp |-> FALSE]},
     schedule    : {DefaultSchedule,
                    [on_startup |-> FALSE, interval_hours |-> 0,
                     last_execution |-> iso(Clock0 - 3600, "+00:00")]}]

\* documents written by hand: some keys only, no retention key, nothing
PartialDocument ==
    [retention |-> [time_based |-> [duration |-> <<"1", "h">>],
                    schedule   |-> [interval_hours |-> 2]]]
ExternalDocuments ==
    {None, EmptyDocument, PartialDocument, [logging |-> EmptyMapping]}

\* the timestamps update_last_execution is called with
ExecutionTimes == {iso(Clock0, "+00:00"), iso(Clock0 + 3600, "+00:00")}

\* a call of the manager and its answer, with the document and whether the
\* manager held a config when it was made; saved is the config of the last
\* save on this manager if that save returned
Call(op) ==
    [op |-> op, raised |-> FALSE, file |-> document, held |-> manager_config # None,
     returned |-> None, before |-> None, timestamp |-> None, saved |-> None]
Saved == IF called = None THEN None ELSE called.saved

\* a manager has been made and nothing called yet
InitManager ==
    /\ store = {}
    /\ next_id = 1
    /\ now = Clock0
    /\ ticks = 0
    /\ archives = << >>
    /\ config = DefaultConfig
    /\ pass = [p \in Passes |-> IdlePass]
    /\ info = None
    /\ NoHandlers
    /\ schedule_file = None
    /\ schedule_cached = None
    /\ stop_event = FALSE
    /\ worker = WorkerOff
    /\ duration_input = <<>>
    /\ parsed = None
    /\ app = AppOff
    /\ document \in ExternalDocuments \cup {config_data(get_default_config)}
    /\ manager_config = None
    /\ called = None

SaveConfig ==
    /\ \E cfg \in SavedConfigs : \E outcome \in SaveOutcomes :
         LET saved == save_config(manager_config, document, cfg, outcome)
         IN  /\ document' = saved.file
             /\ manager_config' = saved.cached
             /\ called' = [Call("save_config") EXCEPT
                              !.raised = saved.raised,
                              !.saved = IF saved.raised THEN None ELSE cfg]
    /\ UNCHANGED <<store, next_id, now, ticks, archives, config, handler_vars, pass, info,
                   scheduler_vars, parser_vars, app_vars>>

GetConfig ==
    /\ LET got == get_config_object(manager_config, document)
       IN  /\ manager_config' = got.cached
           /\ called' = [Call("get_config") EXCEPT
                            !.raised = got.raised,
                            !.returned = IF got.raised THEN None ELSE got.config,
                            !.saved = Saved]
    /\ called' # called
    /\ UNCHANGED <<store, next_id, now, ticks, archives, config, handler_vars, pass, info,
                   scheduler_vars, parser_vars, app_vars, document>>

UpdateLastExecution ==
    /\ \E timestamp \in ExecutionTimes : \E outcome \in SaveOutcomes :
         LET got == get_config_object(manager_config, document)
             saved == update_config_last_execution(manager_config, document,
                                                   timestamp, outcome)
         IN  /\ document' = saved.file
             /\ manager_config' = saved.cached
             /\ called' = [Call("update_last_execution") EXCEPT
                              !.raised = saved.raised,
                              !.before = IF got.raised THEN None ELSE got.config,
                              !.timestamp = timestamp,
                              !.saved = IF saved.raised THEN None ELSE saved.cached]
    /\ UNCHANGED <<store, next_id, now, ticks, archives, config, handler_vars, pass, info,
                   scheduler_vars, parser_vars, app_vars>>

\* the document is edited, replaced or removed by somebody else
DocumentChanges ==
    /\ called # None
    /\ called.op # "document"
    /\ document' \in ExternalDocuments \ {document}
    /\ called' = [Call("document") EXCEPT !.saved = Saved]
    /\ UNCHANGED <<store, next_id, now, ticks, archives, config, handler_vars, pass, info,
                   scheduler_vars, parser_vars, app_vars, manager_config>>

\* another process makes its manager: nothing is held yet
NewManager ==
    /\ manager_config # None
    /\ manager_config' = None
    /\ called' = Call("new_manager")
    /\ UNCHANGED <<store, next_id, now, ticks, archives, config, handler_vars, pass, info,
                   scheduler_vars, parser_vars, app_vars, document>>

NextManager ==
    \/ SaveConfig
    \/ GetConfig
    \/ UpdateLastExecution
    \/ DocumentChanges
    \/ NewManager

SpecManager == InitManager /\ [][NextManager]_vars

----------------------------------------------------------------------------
(* Settings updates: PUT /api/retention/settings and the update command *)

\* a key of a request body or an option of the command line: absent or given
Absent == [present |-> FALSE]
Given(value) == [present |-> TRUE, value |-> value]

\* the JSON values of a body
Text(text) == [str |-> text]
Number(n) == [int |-> n]
Boolean(b) == [bool |-> b]
IsText(json) == "str" \in DOMAIN json
IsNumber(json) == "int" \in DOMAIN json

\* bool(value): a number is true unless zero, a text unless empty
bool(json) ==
    IF IsText(json) THEN json.str # ""
    ELSE IF IsNumber(json) THEN json.int # 0
    ELSE json.bool

\* int(value): a text that is no number raises ValueError
int(json) ==
    IF IsText(json) THEN ValueError
    ELSE IF IsNumber(json) THEN Returned(json.int)
    ELSE Returned(IF json.bool THEN 1 ELSE 0)

\* the answer of a part of the handler: the status of its early return, or
\* 0 when it goes on, and the config object after its assignments
Goes(cfg) == [status |-> 0, config |-> cfg]
Returns(status, cfg) == [status |-> status, config |-> cfg]

\* lines 39-49; parse_duration of a value that is no text raises
\* AttributeError, which the handler of line 95 turns into 500
put_time_based(cfg, time_data) ==
    IF ~time_data.present THEN Goes(cfg)
    ELSE LET enabled == IF time_data.enabled.present
                        THEN [cfg EXCEPT !.time_based.enabled =
                                            bool(time_data.enabled.value)]
                        ELSE cfg
             duration == time_data.duration.value
         IN  IF ~time_data.duration.present THEN Goes(enabled)
             ELSE IF ~IsText(duration) THEN Returns(500, enabled)
             ELSE IF parse_duration(duration.str).raised THEN Returns(400, enabled)
             ELSE Goes([enabled EXCEPT !.time_based.duration = duration.str])

\* variant: zero is let through
max_entries_negative(max_entries) == max_entries < 0

\* line 58: if max_entries <= 0
max_entries_refused(max_entries) == max_entries <= 0

\* lines 52-60
put_count_based(cfg, count_data) ==
    IF ~count_data.present THEN Goes(cfg)
    ELSE LET enabled == IF count_data.enabled.present
                        THEN [cfg EXCEPT !.count_based.enabled =
                                            bool(count_data.enabled.value)]
                        ELSE cfg
             max_entries == int(count_data.max_entries.value)
         IN  IF ~count_data.max_entries.present THEN Goes(enabled)
             ELSE IF max_entries.raised THEN Returns(500, enabled)
             ELSE IF max_entries_refused(max_entries.value) THEN Returns(400, enabled)
             ELSE Goes([enabled EXCEPT !.count_based.max_entries = max_entries.value])

\* variant: the section of the body takes the place of the section, a key
\* that is absent leaving the default
put_export_whole(cfg, export_data) ==
    IF ~export_data.present THEN Goes(cfg)
    ELSE Goes([cfg EXCEPT !.export =
            [enabled |-> IF export_data.enabled.present
                         THEN bool(export_data.enabled.value) ELSE TRUE,
             format |-> "csv_zip",
             output_directory |-> IF export_data.output_directory.present
                                  THEN export_data.output_directory.value.str
                                  ELSE "exports",
             include_timestamp |-> IF export_data.include_timestamp.present
                                   THEN bool(export_data.include_timestamp.value)
                                   ELSE TRUE]])

\* lines 63-70
put_export(cfg, export_data) ==
    IF ~export_data.present THEN Goes(cfg)
    ELSE LET enabled == IF export_data.enabled.present
                        THEN [cfg EXCEPT !.export.enabled =
                                            bool(export_data.enabled.value)]
                        ELSE cfg
             directory == IF export_data.output_directory.present
                          THEN [enabled EXCEPT !.export.output_directory =
                                    export_data.output_directory.value.str]
                          ELSE enabled
         IN  Goes(IF export_data.include_timestamp.present
                  THEN [directory EXCEPT !.export.include_timestamp =
                            bool(export_data.include_timestamp.value)]
                  ELSE directory)

\* lines 73-81; a last_execution in the body is not looked at
put_schedule(cfg, schedule_data) ==
    IF ~schedule_data.present THEN Goes(cfg)
    ELSE LET on_startup == IF schedule_data.on_startup.present
                           THEN [cfg EXCEPT !.schedule.on_startup =
                                               bool(schedule_data.on_startup.value)]
                           ELSE cfg
             interval == int(schedule_data.interval_hours.value)
         IN  IF ~schedule_data.interval_hours.present THEN Goes(on_startup)
             ELSE IF interval.raised THEN Returns(500, on_startup)
             ELSE IF interval.value < 0 THEN Returns(400, on_startup)
             ELSE Goes([on_startup EXCEPT !.schedule.interval_hours = interval.value])

\* a section is looked at when no section before it has returned
put_count_based_next(put, count_data) ==
    IF put.status # 0 THEN put ELSE put_count_based(put.config, count_data)
put_export_next(put, export_data) ==
    IF put.status # 0 THEN put ELSE put_export(put.config, export_data)
put_schedule_next(put, schedule_data) ==
    IF put.status # 0 THEN put ELSE put_schedule(put.config, schedule_data)

\* lines 38-81: the four sections in turn, on the object get_config returned
put_sections(current_config, data) ==
    put_schedule_next(
        put_export_next(
            put_count_based_next(put_time_based(current_config, data.time_based),
                                 data.count_based),
            data.export),
        data.schedule)

\* line 32: if not data
no_data(data) ==
    /\ ~data.time_based.present /\ ~data.count_based.present
    /\ ~data.export.present /\ ~data.schedule.present

\* lines 84-93: the save, and get_retention_info, which may raise after it
put_saved(saved, outcome) ==
    [status |-> IF saved.raised \/ outcome = "info_raises" THEN 500 ELSE 200,
     file |-> saved.file, cached |-> saved.cached]

\* lines 38-97 once the sections have been gone through: an early return
\* leaves the document alone and the object as it has become
put_answer(got, put, file, outcome) ==
    IF put.status # 0
    THEN [status |-> put.status, file |-> file,
          cached |-> held_after(got.cached, put.config)]
    ELSE put_saved(save_config(held_after(got.cached, put.config), file, put.config,
                               IF outcome = "info_raises" THEN "ok" ELSE outcome),
                   outcome)

\* lines 36-97 on what get_config answered
put_config(got, file, data, outcome) ==
    IF got.raised THEN [status |-> 500, file |-> file, cached |-> got.cached]
    ELSE put_answer(got, put_sections(got.config, data), file, outcome)

\* update_retention_settings: the status answered, the document and the
\* object the manager holds afterwards
update_retention_settings(cached, file, data, outcome) ==
    IF no_data(data) THEN [status |-> 400, file |-> file, cached |-> cached]
    ELSE put_config(get_config_object(cached, file), file, data, outcome)

\* an option of the command line counts when it is given and true
option_given(option, empty) == option.present /\ option.value # empty

\* lines 94-126, the assignments
with_time_duration(cfg, option) ==
    IF option_given(option, <<>>)
    THEN [cfg EXCEPT !.time_based.duration = option.value] ELSE cfg
with_time_enabled(cfg, option) ==
    IF option.present THEN [cfg EXCEPT !.time_based.enabled = option.value] ELSE cfg
with_count_max(cfg, option) ==
    IF option_given(option, 0)
    THEN [cfg EXCEPT !.count_based.max_entries = option.value] ELSE cfg
with_count_enabled(cfg, option) ==
    IF option.present THEN [cfg EXCEPT !.count_based.enabled = option.value] ELSE cfg
with_export_enabled(cfg, option) ==
    IF option.present THEN [cfg EXCEPT !.export.enabled = option.value] ELSE cfg
with_export_dir(cfg, option) ==
    IF option_given(option, "")
    THEN [cfg EXCEPT !.export.output_directory = option.value] ELSE cfg

with_options(cfg, args) ==
    with_export_dir(
        with_export_enabled(
            with_count_enabled(
                with_count_max(
                    with_time_enabled(with_time_duration(cfg, args.time_duration),
                                      args.time_enabled),
                    args.count_max),
                args.count_enabled),
            args.export_enabled),
        args.export_dir)

\* lines 129-136
update_saved(saved) == [code |-> IF saved.raised THEN 1 ELSE 0, file |-> saved.file]

\* lines 94-136 on the config get_config gave
update_config(cfg, file, args, outcome) ==
    IF option_given(args.time_duration, <<>>)
          /\ parse_duration(args.time_duration.value).raised
    THEN [code |-> 1, file |-> file]
    ELSE IF option_given(args.count_max, 0) /\ args.count_max.value <= 0
    THEN [code |-> 1, file |-> file]
    ELSE update_saved(save_config(None, file, with_options(cfg, args), outcome))

\* lines 90-91 and 132-134
update_loaded(got, file, args, outcome) ==
    IF got.raised THEN [code |-> 1, file |-> file]
    ELSE update_config(got.config, file, args, outcome)

\* cmd_update_settings: the exit code and the document afterwards; the
\* command runs in a process of its own, whose manager holds nothing
cmd_update_settings(file, args, outcome) ==
    update_loaded(load_config_document(file), file, args, outcome)

\* the bodies of the PUT requests
Bodies ==
    [time_based  : {Absent} \cup
        [present : {TRUE},
         enabled : {Absent, Given(Boolean(FALSE))},
         duration : {Absent, Given(Text(<<"2", "d">>)), Given(Text(<<"g">>)),
                     Given(Number(5))}],
     count_based : {Absent} \cup
        [present : {TRUE},
         enabled : {Absent, Given(Text("false"))},
         max_entries : {Absent, Given(Number(7)), Given(Number(0)), Given(Number(-1)),
                        Given(Text("many"))}],
     export      : {Absent} \cup
        [present : {TRUE},
         enabled : {Absent, Given(Boolean(FALSE))},
         output_directory : {Absent, Given(Text("elsewhere"))},
         include_timestamp : {Absent, Given(Boolean(FALSE))}],
     schedule    : {Absent} \cup
        [present : {TRUE},
         on_startup : {Absent, Given(Boolean(FALSE))},
         interval_hours : {Absent, Given(Number(1)), Given(Number(-1))},
         last_execution : {Absent, Given(Text("2000-01-01T00:00:00"))}]]

\* the options of the update command; argparse makes count-max an integer
\* and the enabled options bool(text)
Arguments ==
    [time_duration  : {Absent, Given(<<"2", "d">>), Given(<<"g">>), Given(<<>>)},
     time_enabled   : {Absent, Given(TRUE), Given(FALSE)},
     count_max      : {Absent, Given(7), Given(0), Given(-1)},
     count_enabled  : {Absent, Given(TRUE)},
     export_enabled : {Absent, Given(TRUE)},
     export_dir     : {Absent, Given("elsewhere"), Given("")}]

\* a config that differs from the defaults in every field that can be set
CustomConfig ==
    [time_based  |-> [enabled |-> FALSE, duration |-> <<"1", "h">>],
     count_based |-> [enabled |-> TRUE, max_entries |-> 5],
     export      |-> [enabled |-> FALSE, format |-> "csv_zip",
                      output_directory |-> "archive", include_timestamp |-> FALSE],
     schedule    |-> [on_startup |-> FALSE, interval_hours |-> 0,
                      last_execution |-> iso(Clock0 - 3600, "+00:00")]]

StoredConfigs == {get_default_config, CustomConfig}

\* a request or a command and its answer, with the document, whether the
\* manager of the server held a config, and the config get_config gave
Request(op, request, status, before) ==
    [op |-> op, request |-> request, status |-> status, file |-> document,
     held |-> manager_config # None, before |-> before,
     saved_later |-> FALSE, timestamp |-> None]

\* the server runs; its manager holds nothing yet or a valid config, and the
\* document, if any, gives a valid config, which is not always the one held:
\* get_config does not read the document again
InitSettings ==
    /\ store = {}
    /\ next_id = 1
    /\ now = Clock0
    /\ ticks = 0
    /\ archives = << >>
    /\ config = DefaultConfig
    /\ pass = [p \in Passes |-> IdlePass]
    /\ info = None
    /\ NoHandlers
    /\ schedule_file = None
    /\ schedule_cached = None
    /\ stop_event = FALSE
    /\ worker = WorkerOff
    /\ duration_input = <<>>
    /\ parsed = None
    /\ app = AppServing
    /\ document \in {None} \cup {config_data(cfg) : cfg \in StoredConfigs}
    /\ manager_config \in {None} \cup {cfg \in StoredConfigs : document # None}
    /\ called = None

PutOutcomes == SaveOutcomes \cup {"info_raises"}

\* what get_config gives before a request
config_before(got) == IF got.raised THEN None ELSE got.config

\* the request is answered
PutAnswered(data, put) ==
    /\ document' = put.file
    /\ manager_config' = put.cached
    /\ called' = Request("put", data, put.status,
                         config_before(get_config_object(manager_config, document)))

\* a PUT request with this body
Put(data, outcome) ==
    /\ PutAnswered(data, update_retention_settings(manager_config, document, data,
                                                    outcome))
    /\ UNCHANGED <<store, next_id, now, ticks, archives, config, handler_vars, pass, info,
                   scheduler_vars, parser_vars, app_vars>>

\* the command has returned
UpdateReturned(args, done) ==
    /\ document' = done.file
    /\ called' = Request("update", args, done.code,
                         config_before(load_config_document(document)))

\* a run of the update command with these options
Update(args, outcome) ==
    /\ UpdateReturned(args, cmd_update_settings(document, args, outcome))
    /\ UNCHANGED <<store, next_id, now, ticks, archives, config, handler_vars, pass, info,
                   scheduler_vars, parser_vars, app_vars, manager_config>>

\* one PUT request
PutSettings ==
    /\ called = None
    /\ \E data \in Bodies : \E outcome \in PutOutcomes : Put(data, outcome)

\* one run of the update command
UpdateCommand ==
    /\ called = None
    /\ \E args \in Arguments : \E outcome \in SaveOutcomes : Update(args, outcome)

\* later the worker of the server saves the time of its pass
WorkerSaves ==
    /\ called # None
    /\ ~called.saved_later
    /\ \E timestamp \in ExecutionTimes :
         LET saved == update_config_last_execution(manager_config, document,
                                                   timestamp, "ok")
         IN  /\ document' = saved.file
             /\ manager_config' = saved.cached
             /\ called' = [called EXCEPT !.saved_later = TRUE,
                                         !.timestamp = timestamp]
    /\ UNCHANGED <<store, next_id, now, ticks, archives, config, handler_vars, pass, info,
                   scheduler_vars, parser_vars, app_vars>>

NextSettings ==
    \/ PutSettings
    \/ UpdateCommand
    \/ WorkerSaves

SpecSettings == InitSettings /\ [][NextSettings]_vars

\* Requests and commands one after the other, with bodies and options that
\* set the checked fields

NoSection == [time_based |-> Absent, count_based |-> Absent, export |-> Absent,
              schedule |-> Absent]
NoOption == [time_duration |-> Absent, time_enabled |-> Absent, count_max |-> Absent,
             count_enabled |-> Absent, export_enabled |-> Absent, export_dir |-> Absent]

\* bodies of one section
SequenceBodies ==
    {[NoSection EXCEPT !.time_based = section] : section \in
        {[present |-> TRUE, enabled |-> Given(Boolean(FALSE)),
          duration |-> Given(Text(<<"g">>))],
         [present |-> TRUE, enabled |-> Absent,
          duration |-> Given(Text(<<"2", "d">>))]}}
    \cup {[NoSection EXCEPT !.count_based = section] : section \in
        {[present |-> TRUE, enabled |-> Absent, max_entries |-> Given(Number(7))],
         [present |-> TRUE, enabled |-> Given(Boolean(TRUE)),
          max_entries |-> Given(Number(0))]}}
    \cup {[NoSection EXCEPT !.schedule = section] : section \in
        {[present |-> TRUE, on_startup |-> Absent,
          interval_hours |-> Given(Number(1)), last_execution |-> Absent],
         [present |-> TRUE, on_startup |-> Given(Boolean(FALSE)),
          interval_hours |-> Given(Number(-1)), last_execution |-> Absent]}}

\* command lines of one option
SequenceArguments ==
    {[NoOption EXCEPT !.time_duration = Given(duration)] :
        duration \in {<<"2", "d">>, <<"g">>}}
    \cup {[NoOption EXCEPT !.count_max = Given(max_entries)] :
        max_entries \in {7, 0, -1}}

\* the server runs on the defaults, with or without a document
InitUpdates ==
    /\ InitSettings
    /\ document \in {None, config_data(get_default_config)}
    /\ manager_config \in {None, get_default_config}

\* a save returns, or raises and leaves the document as it was
SequenceOutcomes == {"ok", "fails_before_open"}

PutInSequence ==
    \E data \in SequenceBodies : \E outcome \in SequenceOutcomes : Put(data, outcome)

UpdateInSequence ==
    \E args \in SequenceArguments : \E outcome \in SequenceOutcomes :
        Update(args, outcome)

\* the worker of the server saves the time of a pass
SaveInSequence ==
    /\ LET timestamp == iso(Clock0, "+00:00")
           got == get_config_object(manager_config, document)
           saved == update_config_last_execution(manager_config, document,
                                                 timestamp, "ok")
       IN  /\ document' = saved.file
           /\ manager_config' = saved.cached
           /\ called' = Request("update_last_execution", timestamp,
                                IF saved.raised THEN 500 ELSE 200,
                                IF got.raised THEN None ELSE got.config)
    /\ UNCHANGED <<store, next_id, now, ticks, archives, config, handler_vars, pass, info,
                   scheduler_vars, parser_vars, app_vars>>

\* the server starts again: its manager is made anew
RestartServer ==
    /\ manager_config # None
    /\ manager_config' = None
    /\ called' = Request("restart", None, 0, None)
    /\ UNCHANGED <<store, next_id, now, ticks, archives, config, handler_vars, pass, info,
                   scheduler_vars, parser_vars, app_vars, document>>

NextUpdates ==
    \/ PutInSequence
    \/ UpdateInSequence
    \/ SaveInSequence
    \/ RestartServer

SpecUpdates == InitUpdates /\ [][NextUpdates]_vars

----------------------------------------------------------------------------
(* Properties *)

Done(p) == pass[p].pc = "done"
Quiet(p) == pass[p].concurrent_writes = 0
DeleteFaults == {"delete_raises", "commit_raises"}
\* the rows of the store at the start of pass p that are gone
Gone(p) == pass[p].store0 \ store
\* the cutoff pass p computed: the clock it read minus the parsed duration
Cutoff(p) ==
    pass[p].time_view.now - parse_duration(pass[p].config.time_based.duration).value
Selected(p) == pass[p].time_based_ids \cup pass[p].count_based_ids

\* C1: no step of a dry-run pass changes the store or the export directory,
\* and a finished dry-run pass reports no export file and has not exported.
C1_DryRunChangesNothing ==
    /\ [][\A p \in Passes :
            (Active(p) /\ pass[p].dry_run /\ pass'[p].pc # pass[p].pc)
                => (store' = store /\ archives' = archives)]_vars
    /\ [](\A p \in Passes :
            (Done(p) /\ pass[p].dry_run)
                => (pass[p].result.export_file = None /\ ~pass[p].exported))

\* a dry run that selected rows, with export enabled, has returned
C1_Witness ==
    \E p \in Passes :
        /\ Done(p) /\ pass[p].dry_run
        /\ pass[p].config.export.enabled
        /\ pass[p].result.records_deleted > 0

\* C2: time-based retention alone, no failure, no concurrent write: the pass
\* deletes exactly the rows whose timestamp is strictly below the cutoff and
\* reports their number.
C2_TimeBasedDeletesExactlyOlder ==
    \A p \in Passes :
        (/\ Done(p) /\ ~pass[p].dry_run /\ Quiet(p)
         /\ pass[p].config.time_based.enabled
         /\ ~pass[p].config.count_based.enabled
         /\ pass[p].faults \subseteq {"export"})
        => LET old == {r \in pass[p].store0 : r.timestamp < Cutoff(p)}
           IN  /\ pass[p].result.records_deleted = Cardinality(old)
               /\ store = pass[p].store0 \ old

\* such a pass has deleted a row and kept a row whose timestamp is the cutoff
C2_Witness ==
    \E p \in Passes :
        /\ Done(p) /\ ~pass[p].dry_run /\ Quiet(p)
        /\ pass[p].config.time_based.enabled
        /\ ~pass[p].config.count_based.enabled
        /\ pass[p].faults = {}
        /\ pass[p].result.records_deleted > 0
        /\ \E r \in store : r.timestamp = Cutoff(p)

\* C3: count-based retention alone with max_entries = M on M + K rows, no
\* failure, no concurrent write: K > 0 rows are deleted, M are left, and no
\* deleted row is newer than a kept one; with at most M rows nothing is selected.
C3_CountBasedDeletesOldest ==
    \A p \in Passes :
        (/\ Done(p) /\ ~pass[p].dry_run /\ Quiet(p)
         /\ ~pass[p].config.time_based.enabled
         /\ pass[p].config.count_based.enabled
         /\ pass[p].faults \subseteq {"export"})
        => LET M == pass[p].config.count_based.max_entries
               n == Cardinality(pass[p].store0)
           IN  IF n > M
               THEN /\ pass[p].result.records_deleted = n - M
                    /\ Cardinality(Gone(p)) = n - M
                    /\ Cardinality(store) = M
                    /\ store \subseteq pass[p].store0
                    /\ \A d \in Gone(p) : \A k \in store : d.timestamp <= k.timestamp
               ELSE /\ pass[p].count_based_ids = {}
                    /\ pass[p].result = ZeroResult
                    /\ store = pass[p].store0

\* such a pass has deleted a row older than one it kept
C3_Witness ==
    \E p \in Passes :
        /\ Done(p) /\ ~pass[p].dry_run /\ Quiet(p)
        /\ ~pass[p].config.time_based.enabled
        /\ pass[p].config.count_based.enabled
        /\ pass[p].faults = {}
        /\ \E d \in Gone(p) : \E k \in store : d.timestamp < k.timestamp

\* C4: both criteria enabled, no failure, no concurrent write: the rows
\* deleted are those of T union C, records_deleted is |T union C|, and the
\* two per-criterion counts are |T| and |C|, T being the rows older than the
\* cutoff and C the rows beyond max_entries.
C4_UnionCountedOnce ==
    \A p \in Passes :
        (/\ Done(p) /\ Quiet(p)
         /\ pass[p].config.time_based.enabled
         /\ pass[p].config.count_based.enabled
         /\ pass[p].faults \subseteq {"export"})
        => LET T == older_than(pass[p].store0, Cutoff(p))
               C == pass[p].count_based_ids
               n == Cardinality(pass[p].store0)
               M == pass[p].config.count_based.max_entries
           IN  /\ pass[p].time_based_ids = T
               /\ Cardinality(C) = (IF n > M THEN n - M ELSE 0)
               /\ pass[p].result.time_based_deletions = Cardinality(T)
               /\ pass[p].result.count_based_deletions = Cardinality(C)
               /\ pass[p].result.records_deleted = Cardinality(T \cup C)
               /\ ~pass[p].dry_run =>
                    /\ Ids(Gone(p)) = T \cup C
                    /\ Cardinality(Gone(p)) = Cardinality(T \cup C)
                    /\ store \subseteq pass[p].store0

\* a deleting pass whose criteria overlap: the two counts add up to more than
\* records_deleted
C4_Witness ==
    \E p \in Passes :
        /\ Done(p) /\ ~pass[p].dry_run /\ Quiet(p)
        /\ pass[p].faults = {}
        /\ pass[p].time_based_ids \cap pass[p].count_based_ids # {}
        /\ pass[p].result.time_based_deletions + pass[p].result.count_based_deletions
              > pass[p].result.records_deleted
        /\ pass[p].result.records_deleted = Cardinality(Gone(p))

RECURSIVE SumDeleted(_)
SumDeleted(bs) == IF bs = <<>> THEN 0 ELSE Head(bs).deleted + SumDeleted(Tail(bs))

RECURSIVE SumRequested(_)
SumRequested(bs) == IF bs = <<>> THEN 0 ELSE Head(bs).requested + SumRequested(Tail(bs))

DeleteFailed(p) == pass[p].faults \cap DeleteFaults # {}

\* C5: a pass whose deletion raised in some batch returns as records_deleted
\* the sum of the deleted counts of the batches committed before it, which
\* is the number of rows the pass removed.
C5_FailedPassReportsCommittedBatches ==
    \A p \in Passes :
        (Done(p) /\ DeleteFailed(p))
        => /\ pass[p].result.records_deleted = SumDeleted(pass[p].batches)
           /\ Quiet(p) => pass[p].result.records_deleted = Cardinality(Gone(p))

\* C6: when the deletion of a batch fails, the rows of the batches committed
\* before it are gone and stay gone, every row of the failing batch and of
\* the batches after it is still stored, and the loop has ended.
C6_FailingBatchRolledBackAlone ==
    \A p \in Passes :
        (Done(p) /\ DeleteFailed(p) /\ Quiet(p))
        => LET committed == Selected(p) \ pass[p].record_ids
           IN  /\ store = pass[p].store0 \ rows_in(pass[p].store0, committed)
               /\ pass[p].failed_batch \subseteq pass[p].record_ids
               /\ rows_in(pass[p].store0, pass[p].record_ids) \subseteq store
               /\ Cardinality(committed) = Len(pass[p].batches) * batch_size

\* the commit of the second batch failed: the first batch is gone, and a third
\* batch was never tried
C6_Witness ==
    \E p \in Passes :
        /\ Done(p) /\ Quiet(p)
        /\ "commit_raises" \in pass[p].faults
        /\ Len(pass[p].batches) >= 1
        /\ Gone(p) # {}
        /\ pass[p].record_ids \ pass[p].failed_batch # {}

\* C7: n selected identifiers are deleted in ceil(n / batch_size) committed
\* batches, each of at most batch_size identifiers and all but the last of
\* exactly batch_size; while no row is inserted count() never increases, and
\* each commit lowers it by the deleted count of its batch.
C7_BatchesOfFixedSize ==
    /\ [](\A p \in Passes :
            LET bs == pass[p].batches
                n == Cardinality(Selected(p))
            IN  /\ \A i \in 1..Len(bs) :
                      /\ bs[i].requested <= batch_size
                      /\ (i < Len(bs) \/ pass[p].record_ids # {} \/ DeleteFailed(p))
                            => bs[i].requested = batch_size
                /\ (Done(p) /\ ~pass[p].dry_run /\ ~DeleteFailed(p) /\ n > 0)
                      => /\ Len(bs) = (n + batch_size - 1) \div batch_size
                         /\ SumRequested(bs) = n)
    /\ [][(\A q \in Passes : pass'[q].concurrent_writes = pass[q].concurrent_writes)
            => /\ Cardinality(store') <= Cardinality(store)
               /\ \A p \in Passes :
                    pass'[p].batches # pass[p].batches
                        => Cardinality(store') = Cardinality(store)
                              - pass'[p].batches[Len(pass'[p].batches)].deleted]_vars

\* two full batches and a partial one were committed
C7_Witness ==
    \E p \in Passes :
        /\ Done(p) /\ ~DeleteFailed(p) /\ Quiet(p)
        /\ Len(pass[p].batches) = 3
        /\ pass[p].batches[1].deleted = batch_size
        /\ pass[p].batches[2].deleted = batch_size
        /\ pass[p].batches[3].requested < batch_size
        /\ store = {}

\* C8: at one clock instant and on one store, get_retention_info does not
\* raise and its three candidate counts equal the per-criterion counts and
\* records_deleted of a dry run, also when the duration does not parse.
C8_InfoAgreesWithPreview ==
    \A p \in Passes :
        (/\ Done(p) /\ pass[p].dry_run /\ Quiet(p)
         /\ pass[p].faults \subseteq {"parse"}
         /\ pass[p].config = config
         /\ info # None
         /\ info.view = pass[p].time_view
         /\ info.view.store = pass[p].count_view.store)
        => /\ ~info.answer.raised
           /\ info.answer.records_to_delete_time_based
                = pass[p].result.time_based_deletions
           /\ info.answer.records_to_delete_count_based
                = pass[p].result.count_based_deletions
           /\ info.answer.total_records_to_delete = pass[p].result.records_deleted

\* C9: a failed selection is confined to its criterion: cleanup_logs does not
\* raise, the failed criterion counts zero candidates, and the candidates of
\* the other criterion are selected as usual and deleted.
C9_SelectionFailureIsolated ==
    \A p \in Passes :
        LET cfg == pass[p].config
            time_failed == pass[p].faults \cap {"parse", "time"} # {}
            count_failed == "count" \in pass[p].faults
            deleting == ~pass[p].dry_run /\ Quiet(p) /\ ~DeleteFailed(p)
        IN  /\ pass[p].pc = "raised" => ~(time_failed \/ count_failed)
            /\ (Done(p) /\ time_failed)
                => LET n == Cardinality(pass[p].count_view.store)
                       M == cfg.count_based.max_entries
                   IN  /\ pass[p].result.time_based_deletions = 0
                       /\ Cardinality(pass[p].count_based_ids)
                            = (IF cfg.count_based.enabled /\ ~count_failed /\ n > M
                               THEN n - M ELSE 0)
                       /\ pass[p].result.count_based_deletions
                            = Cardinality(pass[p].count_based_ids)
                       /\ deleting =>
                            /\ Ids(Gone(p)) = pass[p].count_based_ids
                            /\ pass[p].result.records_deleted
                                 = Cardinality(pass[p].count_based_ids)
            /\ (Done(p) /\ count_failed)
                => /\ pass[p].result.count_based_deletions = 0
                   /\ pass[p].time_based_ids
                        = (IF cfg.time_based.enabled /\ ~time_failed
                           THEN older_than(pass[p].time_view.store, Cutoff(p))
                           ELSE {})
                   /\ pass[p].result.time_based_deletions
                        = Cardinality(pass[p].time_based_ids)
                   /\ deleting =>
                        /\ Ids(Gone(p)) = pass[p].time_based_ids
                        /\ pass[p].result.records_deleted
                             = Cardinality(pass[p].time_based_ids)

\* the duration did not parse, and the pass deleted the count-based candidates
C9_Witness ==
    \E p \in Passes :
        /\ Done(p) /\ ~pass[p].dry_run /\ Quiet(p)
        /\ pass[p].faults = {"parse"}
        /\ pass[p].result.count_based_deletions > 0
        /\ Ids(Gone(p)) = pass[p].count_based_ids

\* C10: a failed export does not stop the pass: cleanup_logs does not raise,
\* reports no export file, and deletes every selected row.
C10_ExportFailureDoesNotBlockDeletion ==
    \A p \in Passes :
        /\ pass[p].pc = "raised" => "export" \notin pass[p].faults
        /\ (Done(p) /\ "export" \in pass[p].faults)
            => /\ pass[p].result.export_file = None
               /\ (Quiet(p) /\ ~DeleteFailed(p))
                    => /\ Ids(Gone(p)) = Selected(p)
                       /\ store \subseteq pass[p].store0
                       /\ pass[p].result.records_deleted = Cardinality(Selected(p))

\* the export failed and the selected rows are gone
C10_Witness ==
    \E p \in Passes :
        /\ Done(p) /\ Quiet(p)
        /\ pass[p].faults = {"export"}
        /\ Gone(p) # {}
        /\ Ids(Gone(p)) = Selected(p)

\* the export step of pass p has returned, with a location or with None
ExportReturned(p) == pass[p].exported \/ "export" \in pass[p].faults
SelectionsDone(p) == pass[p].time_view # None /\ pass[p].count_view # None
Deleting(p) == ~pass[p].dry_run /\ pass[p].config.export.enabled

\* C11: in a pass that is no dry run the steps are ordered: both selections
\* have completed when the export starts; the export happens before any batch;
\* and a step that removes rows from the store is a step of the deletion,
\* taken after the selections and, when export is enabled, after the export
\* has returned.
C11_SelectionThenExportThenDeletion ==
    /\ [](\A p \in Passes :
            pass[p].pc \in {"export", "delete"} => SelectionsDone(p))
    /\ [][\A p \in Passes :
            (pass'[p] # pass[p] /\ ~pass[p].dry_run) =>
                /\ (archives' # archives \/ ExportReturned(p)' # ExportReturned(p))
                     => /\ pass[p].pc = "export"
                        /\ SelectionsDone(p)
                        /\ pass[p].batches = <<>> /\ pass[p].failed_batch = {}
                        /\ store' = store
                /\ (store \ store' # {})
                     => /\ pass[p].pc = "delete"
                        /\ SelectionsDone(p)
                        /\ Deleting(p) => ExportReturned(p)]_vars

\* a pass has selected, exported and then deleted its first batch
C11_Witness ==
    \E p \in Passes :
        /\ ~pass[p].dry_run /\ pass[p].exported
        /\ SelectionsDone(p)
        /\ Len(pass[p].batches) >= 1
        /\ Gone(p) # {}
        /\ DOMAIN archives # {}

\* C12: when the union of the candidate sets is empty cleanup_logs returns
\* records_deleted = 0, export_file = None and both per-criterion counts 0,
\* has neither exported nor deleted, and leaves the store and the export
\* directory as they were, in a dry run and otherwise.
C12_EmptyUnionZeroResult ==
    \A p \in Passes :
        (Done(p) /\ Selected(p) = {})
        => /\ pass[p].result.records_deleted = 0
           /\ pass[p].result.export_file = None
           /\ pass[p].result.time_based_deletions = 0
           /\ pass[p].result.count_based_deletions = 0
           /\ ~pass[p].exported /\ "export" \notin pass[p].faults
           /\ archives = << >>
           /\ pass[p].batches = <<>> /\ pass[p].failed_batch = {}
           /\ Quiet(p) => store = pass[p].store0

\* a pass that is no dry run found nothing to delete in a store with rows,
\* with both criteria and the export enabled
C12_Witness ==
    \E p \in Passes :
        /\ Done(p) /\ ~pass[p].dry_run /\ Quiet(p)
        /\ Selected(p) = {}
        /\ pass[p].faults = {}
        /\ pass[p].store0 # {}
        /\ pass[p].config.time_based.enabled
        /\ pass[p].config.count_based.enabled
        /\ pass[p].config.export.enabled

\* the duration grammar: an optional <digits>d, then an optional <digits>h,
\* then an optional <digits>m, and nothing else
IsComponent(s, unit) ==
    /\ Len(s) >= 2
    /\ s[Len(s)] = unit
    /\ \A i \in 1..(Len(s) - 1) : s[i] \in Digits
OptionalComponent(s, unit) == s = <<>> \/ IsComponent(s, unit)
WholeDuration(s) ==
    \E i \in 0..Len(s) : \E j \in i..Len(s) :
        /\ OptionalComponent(SubSeq(s, 1, i), "d")
        /\ OptionalComponent(SubSeq(s, i + 1, j), "h")
        /\ OptionalComponent(SubSeq(s, j + 1, Len(s)), "m")

Parsed == parsed # None

\* C13: parse_duration raises for every string that, surrounding blanks
\* aside, is not as a whole an optional <digits>d, an optional <digits>h and
\* an optional <digits>m; text after a valid prefix is not ignored.
C13_TrailingCharactersRejected ==
    (Parsed /\ ~WholeDuration(strip(duration_input))) => parsed.raised

\* the composed strings with the seconds their components stand for
Present(n) == IF n = -1 THEN 0 ELSE n
ComposedSeconds ==
    {<<Compose(d, h, m), 86400 * Present(d) + 3600 * Present(h) + 60 * Present(m)>> :
        d, h, m \in -1..MaxNumber}

\* C14: for the string made of the present components among d, h, m, in that
\* order and not all zero, parse_duration returns 86400 d + 3600 h + 60 m
\* ('7d' gives 604800, '2d12h' 216000, '45m' 2700); it raises when the total
\* is zero ('0m'), for the empty string and when the string does not begin
\* with a component ('garbage').
C14_ComposedDurationsParse ==
    Parsed =>
        /\ \A c \in ComposedSeconds :
              duration_input = c[1]
                => IF c[2] > 0 THEN parsed = Returned(c[2]) ELSE parsed.raised
        /\ duration_input = <<"7", "d">> => parsed = Returned(604800)
        /\ duration_input = <<"2", "d", "1", "2", "h">> => parsed = Returned(216000)
        /\ duration_input = <<"4", "5", "m">> => parsed = Returned(2700)
        /\ duration_input \in { <<"0", "m">>, <<>>,
                                <<"g", "a", "r", "b", "a", "g", "e">> }
              => parsed.raised
        /\ (strip(duration_input) = <<>> \/ Head(strip(duration_input)) \notin Digits)
              => parsed.raised

\* a string of two components with a number of two digits has been parsed
C14_Witness ==
    /\ Parsed
    /\ duration_input = Compose(2, 12, -1)
    /\ parsed = Returned(2 * 86400 + 12 * 3600)

\* what get_config answers now
CurrentConfig == get_config(schedule_cached, schedule_file)
LastExecutionIs(text) ==
    ~CurrentConfig.raised /\ CurrentConfig.schedule.last_execution = text
\* the worker has taken the decision of its current cycle
Decided == worker.schedule # None
\* the pass of the current cycle, if any, is over
CycleOver == worker.pc \in {"sleep", "loop", "stopped"}
\* the instant an ISO-8601 text stands for, in seconds; a text without a
\* suffix is taken as UTC
Instant(text) == text.wall - (IF text.suffix = "+01:00" THEN 3600 ELSE 0)
Elapsed == worker.now_utc.wall - Instant(worker.schedule.last_execution)

\* C15: after a cycle in which the worker attempted a pass, last_execution is
\* the UTC time taken in that cycle, whether the pass returned or raised;
\* hence two attempts are never closer than interval_hours.
C15_AttemptedPassAdvancesLastExecution ==
    /\ (CycleOver /\ worker.attempted) => LastExecutionIs(isoformat(worker.now_utc))
    /\ Decided =>
          \A i \in 2..Len(worker.attempts) :
              worker.attempts[i] - worker.attempts[i - 1]
                  >= worker.schedule.interval_hours * 3600

\* the worker read a last_execution that is a timestamp
ReadTimestamp ==
    /\ Decided
    /\ worker.schedule.last_execution \notin {None, NoTimestamp}

C17_FirstCycleRuns ==
    (Decided /\ worker.schedule.last_execution = None)
        => /\ worker.should_run
           /\ worker.attempted
           /\ worker.pc \in {"run", "sleep", "loop", "stopped", "killed"}
           /\ worker.pc # "run" => pass["scheduled"].pc \in {"done", "raised"}
                                      \/ worker.pc = "killed"

\* the first cycle found no last_execution and an interval of two hours, and
\* its pass has returned
C17_Witness ==
    /\ Decided
    /\ worker.cycles = 1
    /\ worker.schedule =
          [on_startup |-> TRUE, interval_hours |-> 2, last_execution |-> None]
    /\ worker.returned
    /\ pass["scheduled"].pc = "done"

\* C18: a cycle that finds a last_execution that is no timestamp runs a pass:
\* it neither skips it nor ends the loop.
C18_UnparseableTimestampRuns ==
    (Decided /\ worker.schedule.last_execution = NoTimestamp)
        => /\ worker.should_run
           /\ worker.attempted
           /\ worker.pc \in {"run", "sleep", "loop", "stopped", "killed"}
           /\ worker.pc # "run" => pass["scheduled"].pc \in {"done", "raised"}
                                      \/ worker.pc = "killed"

\* the timestamp did not parse, and the pass of that cycle deleted rows
C18_Witness ==
    /\ Decided
    /\ worker.schedule.last_execution = NoTimestamp
    /\ "parse" \in worker.faults
    /\ worker.returned
    /\ pass["scheduled"].result.records_deleted > 0

\* the failures of a cycle that its handlers catch
CycleFaults == {"config", "cleanup", "save"}

\* C19: no failure inside a cycle ends the worker: when the config read,
\* the pass or the save of the timestamp raises the worker goes to its sleep,
\* a timestamp that does not parse leads to the pass, and from its sleep the
\* worker comes back to the loop condition, where it begins another cycle
\* unless the stop signal is set.
C19_FailuresDoNotEndWorker ==
    /\ [](worker.pc # "crashed")
    /\ [][/\ \A f \in CycleFaults :
              (f \in worker'.faults /\ worker'.pc # worker.pc /\ f \notin worker.faults)
                  => worker'.pc = "sleep"
          /\ ("parse" \in worker'.faults /\ "parse" \notin worker.faults)
                  => worker'.pc = "run"
          /\ worker.pc = "sleep" => worker'.pc \in {"sleep", "loop", "killed"}
          /\ (worker.pc = "loop" /\ ~stop_event)
                  => worker'.pc \in {"loop", "cycle", "killed"}
          /\ (worker.pc = "loop" /\ stop_event)
                  => worker'.pc \in {"loop", "stopped", "killed"}]_vars

\* the pass of one cycle raised, and the worker has begun a further cycle
C19_Witness ==
    /\ worker.pc = "cycle"
    /\ worker.cycles >= 2
    /\ "cleanup" \in worker.faults
    /\ ~stop_event

\* C20: once the stop signal is set the worker begins no further cycle, and
\* when the worker has ended no pass is left in flight: the pass that was
\* running when the signal was set has returned or raised, and unless a batch
\* failed all its batches were deleted.
C20_StopLetsPassFinish ==
    /\ [][stop_event => worker'.cycles = worker.cycles]_vars
    /\ [](worker.pc \in {"stopped", "killed"}
            => /\ ~Active("scheduled")
               /\ (Done("scheduled") /\ ~DeleteFailed("scheduled"))
                     => pass["scheduled"].record_ids = {})

\* the state of the scheduler: STOPPED before the worker is started and after
\* it has ended, STOPPING from the stop signal to the end of the worker
WorkerState ==
    IF worker.pc \in {"off", "stopped", "killed"} THEN "STOPPED"
    ELSE IF stop_event THEN "STOPPING"
    ELSE "RUNNING"

WorkerTransitions ==
    { <<"STOPPED", "RUNNING">>, <<"RUNNING", "STOPPING">>, <<"STOPPING", "STOPPED">> }

\* C21: the worker begins STOPPED and moves STOPPED -> RUNNING -> STOPPING ->
\* STOPPED; a worker asleep between two cycles can leave its sleep as soon as
\* the stop signal is set, whatever the clock shows; and, the thread being
\* scheduled, a worker whose stop signal is set eventually ends.
C21_StopIsLive ==
    /\ WorkerState = "STOPPED"
    /\ [][WorkerState' # WorkerState
            => <<WorkerState, WorkerState'>> \in WorkerTransitions]_vars
    /\ []((worker.pc = "sleep" /\ stop_event) => ENABLED WakeUp)
    /\ stop_event ~> (WorkerState = "STOPPED")

\* the stop signal came during a cycle or the sleep after it, and the worker
\* has left that sleep and its loop before the wake period was over
C21_Witness ==
    /\ stop_event
    /\ worker.pc = "stopped"
    /\ worker.cycles >= 1
    /\ worker.returned
    /\ now < worker.slept_at + WakePeriod

\* create_app has left its startup block
StartupOver == app.pc \in {"register", "start_worker", "serving"}
\* the startup block read a config that asks for a pass at startup
StartupAsked == app.schedule # None /\ app.schedule.on_startup

\* C27: create_app runs one cleanup pass if the config it read has on_startup
\* set and none otherwise, whatever last_execution and interval_hours are; the
\* pass is over before the log endpoint is registered and before the worker
\* is started; and when the pass or the config read raises, create_app goes
\* on to register the routes.
C27_StartupPassOnceBeforeServing ==
    /\ []((app.pc = "startup_pass" \/ Active("startup"))
            => (~app.log_route /\ worker.pc = "off"))
    /\ []((app.log_route \/ worker.pc # "off")
            => (StartupOver /\ ~Active("startup")))
    /\ [](StartupOver =>
            IF StartupAsked THEN pass["startup"].pc \in {"done", "raised"}
            ELSE pass["startup"] = IdlePass)
    /\ [][pass["startup"].pc \in {"done", "raised"}
            => pass'["startup"] = pass["startup"]]_vars
    /\ [][(app.pc \in {"off", "startup_pass"} /\ app'.pc # app.pc)
            => app'.pc \in {"startup_pass", "register"}]_vars
    /\ [](app.pc # "failed")

\* on_startup is set and last_execution is the present time, with an interval
\* of two hours: the startup pass deleted rows all the same, the application
\* is serving and its worker, at its first cycle, runs no pass
C27_Witness ==
    /\ app.pc = "serving"
    /\ app.schedule = [on_startup |-> TRUE, interval_hours |-> 2,
                       last_execution |-> iso(Clock0, "+00:00")]
    /\ pass["startup"].pc = "done"
    /\ pass["startup"].result.records_deleted > 0
    /\ worker.pc = "sleep"
    /\ ~worker.attempted

\* the rows pass p saw when its selection ended
SelectionView(p) == pass[p].count_view.store

\* C25: a pass deletes only rows that were stored when it selected: a row
\* inserted after the selection of a pass is not removed by a batch of that
\* pass, and is still stored when the pass returns.
C25_InsertedAfterSelectionSurvives ==
    [][\A p \in Passes :
        (pass[p].pc = "delete" /\ pass'[p] # pass[p])
            => (store \ store') \subseteq SelectionView(p)]_vars

\* the rows both passes found at their start that are gone
GoneOfBoth == (pass["manual"].store0 \cup pass["scheduled"].store0) \ store

\* C26: when two passes that delete have run side by side without a failure
\* and without ingestion, the records_deleted of their results sum to the
\* number of rows that left the store, and each batch counted the rows it
\* removed.
C26_ConcurrentPassesCountRemovedRows ==
    (/\ \A p \in Concurrent :
            Done(p) /\ ~pass[p].dry_run /\ Quiet(p) /\ pass[p].faults \subseteq {"export"})
        => /\ pass["manual"].result.records_deleted
                + pass["scheduled"].result.records_deleted = Cardinality(GoneOfBoth)
           /\ \A p \in Concurrent :
                pass[p].result.records_deleted = SumDeleted(pass[p].batches)

\* both passes selected the same rows, each removed some of them, and one was
\* asked to delete rows the other had removed already
C26_Witness ==
    /\ \A p \in Concurrent :
          /\ Done(p) /\ ~pass[p].dry_run /\ Quiet(p) /\ pass[p].faults = {}
          /\ pass[p].result.records_deleted > 0
    /\ Selected("manual") = Selected("scheduled")
    /\ \E p \in Concurrent : SumRequested(pass[p].batches) > SumDeleted(pass[p].batches)

\* the last call of the manager, if any
CalledOp(op) == called # None /\ called.op = op
\* what a manager made now would load
Persisted == load_config_document(document)

\* C28: after save_config(c) has returned, get_config on the same manager
\* answers c until the next save, whatever becomes of the document; and a
\* manager that loads the document save_config(c) wrote obtains c, equal in
\* every field of the four sections.
C28_SaveLoadRoundTrip ==
    /\ (called # None /\ called.saved # None)
          => /\ get_config_object(manager_config, document)
                    = [raised |-> FALSE, config |-> called.saved, cached |-> called.saved]
             /\ CalledOp("get_config") => called.returned = called.saved
    /\ ((CalledOp("save_config") \/ CalledOp("update_last_execution")) /\ ~called.raised)
          => /\ ~Persisted.raised
             /\ Persisted.config.time_based = called.saved.time_based
             /\ Persisted.config.count_based = called.saved.count_based
             /\ Persisted.config.export = called.saved.export
             /\ Persisted.config.schedule = called.saved.schedule
    /\ \A cfg \in SavedConfigs :
          load_config_document(config_data(cfg)).config = cfg

\* a config that differs from the defaults was saved, the document was then
\* replaced by one with other values, and get_config still answers the
\* config saved
C28_Witness ==
    /\ CalledOp("get_config")
    /\ called.saved \in SavedConfigs
    /\ called.saved.schedule # DefaultSchedule
    /\ called.saved.export # get_default_config.export
    /\ called.returned = called.saved
    /\ document = PartialDocument

\* config b is config a with last_execution replaced by timestamp
SameButLastExecution(a, b, timestamp) ==
    /\ b.schedule.last_execution = timestamp
    /\ b.time_based = a.time_based
    /\ b.count_based = a.count_based
    /\ b.export = a.export
    /\ b.schedule.on_startup = a.schedule.on_startup
    /\ b.schedule.interval_hours = a.schedule.interval_hours

\* C29: when update_last_execution(t) has returned, the config the manager
\* holds and the config the document gives have last_execution = t and every
\* other field as get_config gave it before the call; without a document
\* before the call those are the defaults.
C29_UpdateLastExecutionFrame ==
    (CalledOp("update_last_execution") /\ ~called.raised)
        => /\ manager_config # None
           /\ SameButLastExecution(called.before, manager_config, called.timestamp)
           /\ ~Persisted.raised
           /\ SameButLastExecution(called.before, Persisted.config, called.timestamp)
           /\ (called.file = None /\ ~called.held)
                 => called.before = get_default_config

\* update_last_execution was called on a manager that held nothing, without a
\* document: afterwards the document exists and gives the defaults with the
\* new timestamp
C29_Witness ==
    /\ CalledOp("update_last_execution") /\ ~called.raised
    /\ called.file = None /\ ~called.held
    /\ called.before = get_default_config
    /\ manager_config = with_last_execution(get_default_config, called.timestamp)
    /\ document = config_data(manager_config)

\* C22: a PUT answered 400 leaves no trace: get_config gives the config it
\* gave before the request and the document is the one of before, and a save
\* made later by the worker writes the config of before with its timestamp.
C22_RejectedPutHasNoEffect ==
    (CalledOp("put") /\ called.status = 400)
        => IF called.saved_later
           THEN document = config_data(with_last_execution(called.before,
                                                           called.timestamp))
           ELSE /\ get_config_object(manager_config, document).config = called.before
                /\ document = called.file

\* max_entries > 0, a duration parse_duration accepts (it raises on zero),
\* interval_hours >= 0
ValidConfig(cfg) ==
    /\ cfg.count_based.max_entries > 0
    /\ ~parse_duration(cfg.time_based.duration).raised
    /\ parse_duration(cfg.time_based.duration).value > 0
    /\ cfg.schedule.interval_hours >= 0

\* C23: after any sequence of PUT requests and update commands on a server
\* that started from the defaults, the config the manager holds and the config
\* the document gives are valid.
C23_UpdatesKeepConfigValid ==
    /\ manager_config # None => ValidConfig(manager_config)
    /\ ~Persisted.raised => ValidConfig(Persisted.config)

\* a body with max_entries 0 has been refused after its enabled was assigned,
\* on a document an update command wrote and with an interval a PUT set
C23_Witness ==
    /\ CalledOp("put")
    /\ called.status = 400
    /\ called.request.count_based.present
    /\ manager_config # None
    /\ manager_config.count_based.enabled
    /\ manager_config.schedule.interval_hours = 1
    /\ ~Persisted.raised
    /\ Persisted.config.count_based.max_entries = 7
    /\ Persisted.config.time_based.duration = <<"2", "d">>

\* C24: an update command given a duration that does not parse or a
\* max-entries that is zero or negative returns 1 and leaves the document as
\* it was; and it returns 0 only when what it was given was valid and the
\* document holds a config.
C24_UpdateCommandValidates ==
    (CalledOp("update") /\ ~called.saved_later)
        => LET args == called.request
               bad_duration == /\ args.time_duration.present
                               /\ parse_duration(args.time_duration.value).raised
               bad_count == args.count_max.present /\ args.count_max.value <= 0
           IN  /\ (bad_duration \/ bad_count)
                      => (called.status = 1 /\ document = called.file)
               /\ called.status = 0
                      => (~bad_duration /\ ~bad_count /\ ~Persisted.raised
                          /\ document # None)

\* the fields of a config a body does not name, and last_execution and the
\* format, are in after what they were in before
KeptOutsideBody(data, before, after) ==
    /\ \A field \in {"enabled", "duration"} :
         (~data.time_based.present \/ ~data.time_based[field].present)
            => after.time_based[field] = before.time_based[field]
    /\ \A field \in {"enabled", "max_entries"} :
         (~data.count_based.present \/ ~data.count_based[field].present)
            => after.count_based[field] = before.count_based[field]
    /\ \A field \in {"enabled", "output_directory", "include_timestamp"} :
         (~data.export.present \/ ~data.export[field].present)
            => after.export[field] = before.export[field]
    /\ \A field \in {"on_startup", "interval_hours"} :
         (~data.schedule.present \/ ~data.schedule[field].present)
            => after.schedule[field] = before.schedule[field]
    /\ after.export.format = before.export.format
    /\ after.schedule.last_execution = before.schedule.last_execution

\* C30: after a PUT answered 200, every field its body does not name, and
\* last_execution, has the value it had in the config before the request,
\* in the config the manager holds and in the config the document gives.
C30_AcceptedPutKeepsAbsentFields ==
    (CalledOp("put") /\ called.status = 200 /\ ~called.saved_later)
        => /\ manager_config # None
           /\ KeptOutsideBody(called.request, called.before, manager_config)
           /\ ~Persisted.raised
           /\ KeptOutsideBody(called.request, called.before, Persisted.config)

\* a body with an export section that names enabled only and with no
\* time_based section has been accepted on a config that is not the defaults
C30_Witness ==
    /\ CalledOp("put")
    /\ called.status = 200
    /\ ~called.saved_later
    /\ called.before = CustomConfig
    /\ ~called.request.time_based.present
    /\ called.request.export.present
    /\ called.request.export.enabled.present
    /\ ~called.request.export.output_directory.present
    /\ called.request.schedule.present
    /\ called.request.schedule.last_execution.present
    /\ manager_config.export.output_directory = "archive"
    /\ manager_config.schedule.last_execution = CustomConfig.schedule.last_execution

----------------------------------------------------------------------------
(* Nesting of the two selections, manager.py lines 39-50 *)

\* C36: when both selections of a pass read the same store, every count-based
\* candidate is a time-based candidate or the reverse, so the union has as
\* many members as the larger of the two, and a pass that returned without a
\* failed deletion reports that number as records_deleted when it is a dry run.
C36_CandidateSetsNested ==
    \A p \in Passes :
        (/\ SelectionsDone(p)
         /\ pass[p].pc \in {"export", "delete", "done"}
         /\ pass[p].time_view.store = pass[p].count_view.store)
        => LET T == pass[p].time_based_ids
               C == pass[p].count_based_ids
               larger == IF Cardinality(T) >= Cardinality(C)
                         THEN Cardinality(T) ELSE Cardinality(C)
           IN  /\ C \subseteq T \/ T \subseteq C
               /\ Cardinality(deletion_ids(T, C)) = larger
               /\ (Done(p) /\ pass[p].dry_run /\ pass[p].record_ids # {}) =>
                    /\ pass[p].result.records_deleted = larger
                    /\ larger = (IF pass[p].result.time_based_deletions
                                      >= pass[p].result.count_based_deletions
                                 THEN pass[p].result.time_based_deletions
                                 ELSE pass[p].result.count_based_deletions)

\* both criteria enabled on a store with two rows of one timestamp: the
\* count-based candidates are a proper, non-empty part of the time-based ones
C36_Witness ==
    \E p \in Passes :
        /\ Done(p) /\ pass[p].dry_run
        /\ pass[p].config.time_based.enabled
        /\ pass[p].config.count_based.enabled
        /\ pass[p].time_view.store = pass[p].count_view.store
        /\ \E r, s \in pass[p].time_view.store : r.id # s.id /\ r.timestamp = s.timestamp
        /\ pass[p].count_based_ids # {}
        /\ pass[p].count_based_ids # pass[p].time_based_ids
        /\ pass[p].count_based_ids \subseteq pass[p].time_based_ids
        /\ pass[p].result.records_deleted = Cardinality(pass[p].time_based_ids)

----------------------------------------------------------------------------
(* The archives of _export_records, manager.py lines 117-147 *)

\* C35: two passes that both exported report two different archives.
C35_ArchivesOfPassesKeptApart ==
    \A p, q \in Passes :
        (p # q /\ pass[p].exported /\ pass[q].exported)
            => pass[p].export_file # pass[q].export_file

\* C34: a deleting pass that returned an export file has removed only rows
\* that the archive of that name contains.
C34_DeletedRecordsAreArchived ==
    \A p \in Passes :
        (/\ Done(p) /\ ~pass[p].dry_run
         /\ pass[p].result.export_file # None)
            => pass[p].removed \subseteq archives[pass[p].result.export_file]

----------------------------------------------------------------------------
(* A pass repeated on a quiescent store *)

\* the pass that deletes, and the pass that is made after it has returned
FirstPass == "startup"
SecondPass == "manual"

\* a pass that deletes, then a second pass at the same clock and config; no
\* record is ingested
NextAgain ==
    \/ StartPass(FirstPass, FALSE)
    \/ Done(FirstPass) /\ \E dry_run \in BOOLEAN : StartPass(SecondPass, dry_run)
    \/ \E p \in {FirstPass, SecondPass} : SelectTime(p)
    \/ \E p \in {FirstPass, SecondPass} : SelectCount(p)
    \/ \E p \in {FirstPass, SecondPass} : Export(p)
    \/ \E p \in {FirstPass, SecondPass} : DeleteBatch(p)

SpecAgain == Init /\ [][NextAgain]_vars

\* C37: after a deleting pass that returned without a failure, the store has
\* at most max_entries rows when count-based retention is enabled and no row
\* below the cutoff when time-based retention is enabled; a second pass at the
\* same clock and config then selects nothing, returns the zero result and
\* leaves the store as it was.
C37_CleanupIdempotent ==
    (Done(FirstPass) /\ pass[FirstPass].faults = {})
        => /\ pass[FirstPass].config.count_based.enabled
                => Cardinality(store) <= pass[FirstPass].config.count_based.max_entries
           /\ pass[FirstPass].config.time_based.enabled
                => older_than(store, Cutoff(FirstPass)) = {}
           /\ pass[SecondPass].pc # "idle" => store = pass[SecondPass].store0
           /\ (Done(SecondPass) /\ pass[SecondPass].faults = {})
                => /\ pass[SecondPass].time_based_ids = {}
                   /\ pass[SecondPass].count_based_ids = {}
                   /\ pass[SecondPass].result = ZeroResult
                   /\ pass[SecondPass].removed = {}
                   /\ ~pass[SecondPass].exported

\* the first pass removed rows under both criteria, and the second pass, not
\* a dry run, has returned
C37_Witness ==
    /\ Done(FirstPass) /\ pass[FirstPass].faults = {}
    /\ pass[FirstPass].config.count_based.enabled
    /\ pass[FirstPass].config.time_based.enabled
    /\ pass[FirstPass].removed # {}
    /\ store # {}
    /\ Done(SecondPass) /\ ~pass[SecondPass].dry_run
    /\ pass[SecondPass].faults = {}
    /\ pass[SecondPass].config = pass[FirstPass].config

----------------------------------------------------------------------------
(* Who writes schedule.last_execution *)

\* a pass asked for by a request (trigger_cleanup, preview_cleanup) or by the
\* command line (cmd_cleanup): cleanup_logs and nothing else
ManualPass ==
    \/ \E dry_run \in BOOLEAN : StartPass("manual", dry_run)
    \/ SelectTime("manual")
    \/ SelectCount("manual")
    \/ Export("manual")
    \/ DeleteBatch("manual")

\* the startup and the first cycle of the worker, beside a manual pass
NextFirst ==
    \/ ReadStartupConfig
    \/ StartupPass
    \/ StartupReturned
    \/ RegisterRoutes
    \/ StartWorker
    \/ ManualPass
    \/ CheckStop
    \/ Decide
    \/ RunPass
    \/ CleanupReturned
    \/ CleanupRaised

\* create_app is about to be called on a store of one batch of old rows, with
\* no document or a document with an interval of two hours
InitFirst ==
    /\ store = {[id |-> i, timestamp |-> Clock0 - 7200] : i \in 1..batch_size}
    /\ next_id = batch_size + 1
    /\ now = Clock0
    /\ ticks = 0
    /\ archives = << >>
    /\ config \in {c \in Configs : /\ c.time_based = [enabled |-> TRUE, duration |-> <<"1", "h">>]
                                   /\ ~c.count_based.enabled
                                   /\ c.export.include_timestamp}
    /\ pass = [p \in Passes |-> IdlePass]
    /\ info = None
    /\ NoHandlers
    /\ schedule_file \in {f \in StartupFiles :
                             f \notin {None, EmptyDocument} => f.interval_hours = 2}
    /\ schedule_cached = None
    /\ stop_event = FALSE
    /\ worker = WorkerOff
    /\ duration_input = <<>>
    /\ parsed = None
    /\ app = AppOff
    /\ NoSettings

SpecFirst == InitFirst /\ [][NextFirst]_vars

\* the last_execution a reader of the config gets, or None when the read raises
LastExecution(cached, file) ==
    LET got == get_config(cached, file)
    IN  IF got.raised THEN [raised |-> TRUE]
        ELSE [raised |-> FALSE, value |-> got.schedule.last_execution]

\* C38: every step but the worker's return from its pass leaves the file's
\* schedule and the last_execution a reader gets as they were, the steps of
\* the startup pass and of a manual pass among them; so when create_app read
\* on_startup set and no last_execution and made its startup pass, the first
\* cycle of the worker finds no last_execution and makes a pass of its own.
C38_OnlyWorkerAdvancesLastExecution ==
    /\ [][~(worker.pc = "run" /\ worker'.pc # "run")
            => /\ schedule_file' = schedule_file
               /\ LastExecution(schedule_cached', schedule_file')
                    = LastExecution(schedule_cached, schedule_file)]_vars
    /\ []((/\ StartupAsked /\ app.schedule.last_execution = None
           /\ worker.cycles = 1 /\ worker.pc # "cycle")
            => /\ pass["startup"].pc \in {"done", "raised"}
               /\ Decided
               /\ worker.schedule.last_execution = None
               /\ worker.should_run /\ worker.attempted
               /\ worker.pc \in {"run", "sleep"}
               /\ worker.pc = "sleep" => pass["scheduled"].pc \in {"done", "raised"})

\* the startup pass deleted rows, a manual pass has returned as well, and the
\* worker's first cycle has made its own pass and saved its time
C38_Witness ==
    /\ StartupAsked /\ app.schedule.last_execution = None
    /\ pass["startup"].pc = "done" /\ pass["startup"].removed # {}
    /\ pass["manual"].pc = "done"
    /\ worker.cycles = 1 /\ worker.pc = "sleep"
    /\ pass["scheduled"].pc = "done"
    /\ worker.returned
    /\ schedule_file # None /\ schedule_file # EmptyDocument
    /\ schedule_file.last_execution = isoformat(worker.now_utc)

----------------------------------------------------------------------------
(* The HTTP log endpoint: log_endpoint of http_handler.py *)

\* the names of the enum LogLevel
LogLevels == {"DEBUG", "INFO", "WARNING", "ERROR", "CRITICAL"}

\* float(value): a text that is no number raises ValueError
float(json) == IF IsText(json) THEN ValueError ELSE Returned(json.int)

\* lines 66-71: the timestamp of the record, the clock when created is absent
log_timestamp(request, t) ==
    IF request.created.present THEN float(request.created.value) ELSE Returned(t)

\* line 73: LogLevel(log_record.get("levelname", "INFO"))
log_level(request) ==
    IF ~request.levelname.present THEN Returned("INFO")
    ELSE IF request.levelname.value \in LogLevels THEN Returned(request.levelname.value)
    ELSE ValueError

\* what may happen after the parsing: the commit of line 121 raises, or the
\* broadcast callback of line 125 raises a ValueError (datetime.fromtimestamp
\* of get_log_data) or another exception (socketio.emit)
LogOutcomes == {"ok", "commit_raises", "broadcast_raises", "broadcast_raises_ValueError"}

\* log_endpoint: the status it answers and whether the row was committed.
\* The commit of line 121 comes before the callback, and the rollback of
\* get_db_session after an exception of the callback finds nothing to undo.
log_endpoint(request, t, outcome) ==
    IF log_timestamp(request, t).raised \/ log_level(request).raised
    THEN [status |-> 400, stored |-> FALSE]
    ELSE CASE outcome = "commit_raises" -> [status |-> 500, stored |-> FALSE]
           [] outcome = "broadcast_raises" -> [status |-> 500, stored |-> TRUE]
           [] outcome = "broadcast_raises_ValueError" -> [status |-> 400, stored |-> TRUE]
           [] OTHER -> [status |-> 200, stored |-> TRUE]

\* the bodies of a request: created and levelname, absent or given
LogRequests ==
    [created : {Absent, Given(Text("soon"))} \cup {Given(Number(t)) : t \in Timestamps},
     levelname : {Absent, Given("INFO"), Given("TRACE")}]

\* the row log_endpoint adds
log_entry(i, request, t) == [id |-> i, timestamp |-> log_timestamp(request, t).value]

\* one request to the log endpoint
LogRequest ==
    /\ \E request \in LogRequests : \E outcome \in LogOutcomes :
       \E i \in new_ids(store, next_id) :
         /\ i <= MaxId
         /\ store' = IF log_endpoint(request, now, outcome).stored
                     THEN store \cup {log_entry(i, request, now)} ELSE store
         /\ next_id' = IF log_endpoint(request, now, outcome).stored /\ i = next_id
                       THEN next_id + 1 ELSE next_id
         /\ endpoint' = [request |-> request, outcome |-> outcome,
                         status |-> log_endpoint(request, now, outcome).status,
                         \* history, for the properties: the store before
                         before |-> store]
    /\ UNCHANGED <<now, ticks, archives, config, pass, info, context, threads, race, udp,
                   scheduler_vars, parser_vars, app_vars, settings_vars>>

\* the server is up, on any store with room for a row
InitLog ==
    /\ \E n \in 0..(MaxId - 1) : store \in StoresOf(n) /\ next_id = n + 1
    /\ now = Clock0
    /\ ticks = 0
    /\ archives = << >>
    /\ config = DefaultConfig
    /\ pass = [p \in Passes |-> IdlePass]
    /\ info = None
    /\ NoHandlers
    /\ Elsewhere

NextLog == LogRequest

SpecLog == InitLog /\ [][NextLog]_vars

\* C39: a request answered with 200 has added exactly one row to the store,
\* and a request answered with any other status has added none.
C39_StatusTellsWhetherStored ==
    endpoint # None =>
        IF endpoint.status = 200
        THEN endpoint.before \subseteq store
                /\ Cardinality(store \ endpoint.before) = 1
        ELSE store = endpoint.before

----------------------------------------------------------------------------
(* A settings request beside update_last_execution, statement by statement *)

\* The config objects are kept apart from the references to them: the manager
\* holds a reference (0 for None), and so does each caller of get_config, so
\* that an assignment through one reference shows through the others to the
\* same object and through no other.

retention_vars == <<store, next_id, now, ticks, archives, config, pass, info>>

\* get_config, lines 135-139: whether load_config makes a new object; it
\* does when the manager holds none
loads(r) == r.held = 0

\* load_config, lines 54-99: the object it makes, the defaults without a file
loaded(r) == IF r.file = None THEN get_default_config ELSE from_config_data(r.file)

\* the objects after get_config
objects_after_get(r) == IF loads(r) THEN Append(r.objects, loaded(r)) ELSE r.objects

\* the reference get_config returns
returned_by_get(r) == IF loads(r) THEN Len(r.objects) + 1 ELSE r.held

\* self._config after get_config: load_config keeps the object it made from
\* a file (line 92) and does not keep the defaults (line 58)
held_after_get(r) ==
    IF loads(r) /\ r.file # None THEN Len(r.objects) + 1 ELSE r.held

\* retention_api.py line 36: current_config = config_manager.get_config()
PutGetsConfig ==
    /\ race # None
    /\ race.put.pc = "idle"
    /\ \E data \in SequenceBodies :
         race' = [race EXCEPT !.objects = objects_after_get(race),
                              !.held = held_after_get(race),
                              !.put = [pc |-> "got", ref |-> returned_by_get(race),
                                       data |-> data, status |-> 0]]
    /\ UNCHANGED <<retention_vars, context, threads, endpoint, udp,
                   scheduler_vars, parser_vars, app_vars, settings_vars>>

\* lines 38-81: the assignments to the object, up to an early return
PutAssigns ==
    /\ race # None
    /\ race.put.pc = "got"
    /\ race' = [race EXCEPT
          !.objects[race.put.ref] = put_sections(@, race.put.data).config,
          !.put.status = put_sections(race.objects[race.put.ref], race.put.data).status,
          !.put.pc = IF put_sections(race.objects[race.put.ref], race.put.data).status = 0
                     THEN "assigned" ELSE "done"]
    /\ UNCHANGED <<retention_vars, context, threads, endpoint, udp,
                   scheduler_vars, parser_vars, app_vars, settings_vars>>

\* line 84: config_manager.save_config(current_config), and the answer 200
PutSaves ==
    /\ race # None
    /\ race.put.pc = "assigned"
    /\ race' = [race EXCEPT !.file = config_data(race.objects[race.put.ref]),
                            !.held = race.put.ref,
                            !.put.pc = "done", !.put.status = 200]
    /\ UNCHANGED <<retention_vars, context, threads, endpoint, udp,
                   scheduler_vars, parser_vars, app_vars, settings_vars>>

\* config/retention.py line 143: config = self.get_config()
UpdateGetsConfig ==
    /\ race # None
    /\ race.update.pc = "idle"
    /\ \E timestamp \in ExecutionTimes :
         race' = [race EXCEPT !.objects = objects_after_get(race),
                              !.held = held_after_get(race),
                              !.update = [pc |-> "got", ref |-> returned_by_get(race),
                                          timestamp |-> timestamp]]
    /\ UNCHANGED <<retention_vars, context, threads, endpoint, udp,
                   scheduler_vars, parser_vars, app_vars, settings_vars>>

\* line 144: config.schedule.last_execution = timestamp
UpdateAssigns ==
    /\ race # None
    /\ race.update.pc = "got"
    /\ race' = [race EXCEPT
          !.objects[race.update.ref] = with_last_execution(@, race.update.timestamp),
          !.update.pc = "assigned"]
    /\ UNCHANGED <<retention_vars, context, threads, endpoint, udp,
                   scheduler_vars, parser_vars, app_vars, settings_vars>>

\* line 145: self.save_config(config)
UpdateSaves ==
    /\ race # None
    /\ race.update.pc = "assigned"
    /\ race' = [race EXCEPT !.file = config_data(race.objects[race.update.ref]),
                            !.held = race.update.ref,
                            !.update.pc = "done"]
    /\ UNCHANGED <<retention_vars, context, threads, endpoint, udp,
                   scheduler_vars, parser_vars, app_vars, settings_vars>>

\* the server runs: there is no document, or a document of a valid config
\* which the manager has loaded or not yet
InitRace ==
    /\ store = {} /\ next_id = 1
    /\ now = Clock0
    /\ ticks = 0
    /\ archives = << >>
    /\ config = DefaultConfig
    /\ pass = [p \in Passes |-> IdlePass]
    /\ info = None
    /\ context = None /\ threads = None /\ endpoint = None /\ udp = None
    /\ Elsewhere
    /\ \E file \in {None} \cup {config_data(cfg) : cfg \in StoredConfigs} :
       \E is_loaded \in BOOLEAN :
         /\ is_loaded => file # None
         /\ race = [file |-> file,
                    objects |-> IF is_loaded THEN <<from_config_data(file)>> ELSE <<>>,
                    held |-> IF is_loaded THEN 1 ELSE 0,
                    put |-> [pc |-> "idle", ref |-> 0, data |-> NoSection, status |-> 0],
                    update |-> [pc |-> "idle", ref |-> 0, timestamp |-> None]]

NextRace ==
    \/ PutGetsConfig
    \/ PutAssigns
    \/ PutSaves
    \/ UpdateGetsConfig
    \/ UpdateAssigns
    \/ UpdateSaves

SpecRace == InitRace /\ [][NextRace]_vars

\* the fields a body sets have the values it gives: going through the
\* sections again changes nothing
HasFieldsOf(cfg, data) == put_sections(cfg, data).config = cfg

\* C33: once update_last_execution(t) has returned and the settings request
\* has answered 200, the document and the object the manager holds both have
\* last_execution t and the fields the request set.
C33_LastExecutionSurvivesPut ==
    (/\ race # None
     /\ race.update.pc = "done"
     /\ race.put.pc = "done" /\ race.put.status = 200)
        => /\ race.file.retention.schedule.last_execution = race.update.timestamp
           /\ race.objects[race.held].schedule.last_execution = race.update.timestamp
           /\ HasFieldsOf(from_config_data(race.file), race.put.data)
           /\ HasFieldsOf(race.objects[race.held], race.put.data)

----------------------------------------------------------------------------
(* The worker thread and its stop event over several calls of create_app *)

\* thread and event objects made in one process
MaxStarts == 3

\* Thread objects and Event objects are numbered in the order they are made;
\* 0 stands for None.  A thread is alive from its start to its return.
is_alive(t) == t.pc = "running"

\* variant: create_app starts a worker at every call
start_always(retention_thread, workers) == TRUE

\* app.py line 175: if retention_thread is None or not retention_thread.is_alive()
start_wanted(retention_thread, workers) ==
    retention_thread = 0 \/ ~is_alive(workers[retention_thread])

\* a Thread object: its position, and as history the event made with it and
\* the events it tested
NewThread(pc, event) == [pc |-> pc, event |-> event, tested |-> {}]

\* before create_app was ever called
NoThreads == [retention_thread |-> 0, retention_stop_event |-> 0,
              events |-> <<>>, workers |-> <<>>]

\* lines 174-182: a new event, a new thread and its start, unless a worker is
\* alive; the constructor of the thread or its start may raise, which is logged
CreateApp ==
    /\ threads # None
    /\ Len(threads.events) < MaxStarts
    /\ \E outcome \in {"started", "thread_raises", "start_raises"} :
         threads' =
           IF ~start_wanted(threads.retention_thread, threads.workers) THEN threads
           ELSE IF outcome = "thread_raises"
           THEN [threads EXCEPT !.events = Append(@, FALSE),
                                !.retention_stop_event = Len(threads.events) + 1]
           ELSE [threads EXCEPT
                   !.events = Append(@, FALSE),
                   !.retention_stop_event = Len(threads.events) + 1,
                   !.workers = Append(@, NewThread(
                        IF outcome = "started" THEN "running" ELSE "unstarted",
                        Len(threads.events) + 1)),
                   !.retention_thread = Len(threads.workers) + 1]
    /\ UNCHANGED <<retention_vars, context, race, endpoint, udp,
                   scheduler_vars, parser_vars, app_vars, settings_vars>>

\* main, lines 216-220: the event the global names is set; the join that
\* follows waits for the thread at most five seconds and changes nothing
Shutdown ==
    /\ threads # None
    /\ threads.retention_stop_event # 0
    /\ threads' = [threads EXCEPT !.events[threads.retention_stop_event] = TRUE]
    /\ UNCHANGED <<retention_vars, context, race, endpoint, udp,
                   scheduler_vars, parser_vars, app_vars, settings_vars>>

\* retention_background_thread, lines 45 and 97: the thread reads the global
\* retention_stop_event anew at every test and every wait, and returns when
\* the event it finds is set
WorkerTestsEvent ==
    /\ threads # None
    /\ \E w \in 1..Len(threads.workers) :
         /\ is_alive(threads.workers[w])
         /\ threads' = [threads EXCEPT
               !.workers[w].tested = @ \cup {threads.retention_stop_event},
               !.workers[w].pc = IF threads.events[threads.retention_stop_event]
                                 THEN "finished" ELSE "running"]
    /\ UNCHANGED <<retention_vars, context, race, endpoint, udp,
                   scheduler_vars, parser_vars, app_vars, settings_vars>>

InitThreads ==
    /\ store = {} /\ next_id = 1
    /\ now = Clock0
    /\ ticks = 0
    /\ archives = << >>
    /\ config = DefaultConfig
    /\ pass = [p \in Passes |-> IdlePass]
    /\ info = None
    /\ context = None /\ race = None /\ endpoint = None /\ udp = None
    /\ Elsewhere
    /\ threads = NoThreads

NextThreads ==
    \/ CreateApp
    \/ Shutdown
    \/ WorkerTestsEvent

SpecThreads == InitThreads /\ [][NextThreads]_vars

\* the workers that are alive
Alive == {w \in 1..Len(threads.workers) : is_alive(threads.workers[w])}

\* C32: at most one worker is alive; a worker is started only when none is
\* alive, with an event made for it and not set; and the event a live worker
\* tests is the one the global names, which is the one the shutdown sets.
C32_AtMostOneWorker ==
    /\ [](threads # None => Cardinality(Alive) <= 1)
    /\ [](threads # None =>
            \A w \in Alive :
                /\ threads.retention_thread = w
                /\ threads.workers[w].event = threads.retention_stop_event
                /\ threads.workers[w].tested \subseteq {threads.retention_stop_event})
    /\ [][(threads # None /\ Len(threads'.workers) > Len(threads.workers))
            => /\ Alive = {}
               /\ threads'.retention_stop_event = Len(threads.events) + 1
               /\ ~threads'.events[threads'.retention_stop_event]]_vars
    /\ [][(threads # None /\ threads'.events # threads.events
              /\ Len(threads'.events) = Len(threads.events))
            => \A w \in Alive :
                  threads'.events[threads.workers[w].event]]_vars

\* a second worker runs, started after the first was stopped and had returned
C32_Witness ==
    /\ threads # None
    /\ Len(threads.workers) >= 2
    /\ threads.workers[1].pc = "finished"
    /\ is_alive(threads.workers[2])
    /\ threads.events[1] /\ ~threads.events[2]
    /\ threads.workers[2].tested = {2}

----------------------------------------------------------------------------
(* The logging contexts of the client: PyLogTrailContext of handlers.py *)

\* the contexts used on one logger, each with the handler it was made with:
\* an HTTP context, a UDP context and a context made around a given handler
Contexts == {"http", "udp", "given"}

\* the handler of a context is named after it; the logger has a handler of
\* its own as well
Console == "console"

\* Logger.addHandler: the handler is appended unless it is in the list
addHandler(handlers, hdlr) ==
    IF \E i \in 1..Len(handlers) : handlers[i] = hdlr THEN handlers
    ELSE Append(handlers, hdlr)

\* variant: the handler stays in the list
handler_kept(handlers, hdlr) == handlers

\* Logger.removeHandler: the handler is taken out of the list if it is there
removeHandler(handlers, hdlr) ==
    LET others(h) == h # hdlr IN SelectSeq(handlers, others)

\* a context before its with-statement
Outside == [pc |-> "out", raised |-> FALSE, flushed |-> FALSE, closed |-> FALSE,
            propagated |-> FALSE]

\* line 125, __enter__: self.logger.addHandler(self.handler)
Enter(c) ==
    /\ context # None
    /\ context.of[c].pc = "out"
    /\ context' = [context EXCEPT !.handlers = addHandler(@, c),
                                  !.of[c].pc = "body"]
    /\ UNCHANGED <<retention_vars, threads, race, endpoint, udp,
                   scheduler_vars, parser_vars, app_vars, settings_vars>>

\* the body of the with-statement raises; __exit__ is called with the
\* exception
BodyRaises(c) ==
    /\ context # None
    /\ context.of[c].pc = "body"
    /\ ~context.of[c].raised
    /\ context' = [context EXCEPT !.of[c].raised = TRUE]
    /\ UNCHANGED <<retention_vars, threads, race, endpoint, udp,
                   scheduler_vars, parser_vars, app_vars, settings_vars>>

\* line 130, __exit__: self.logger.removeHandler(self.handler)
ExitRemoves(c) ==
    /\ context # None
    /\ context.of[c].pc = "body"
    /\ context' = [context EXCEPT !.handlers = removeHandler(@, c),
                                  !.of[c].pc = "removed"]
    /\ UNCHANGED <<retention_vars, threads, race, endpoint, udp,
                   scheduler_vars, parser_vars, app_vars, settings_vars>>

\* line 131: self.handler.flush(), which the handlers of the client inherit
\* from logging.Handler
ExitFlushes(c) ==
    /\ context # None
    /\ context.of[c].pc = "removed"
    /\ context' = [context EXCEPT !.of[c].flushed = TRUE, !.of[c].pc = "flushed"]
    /\ UNCHANGED <<retention_vars, threads, race, endpoint, udp,
                   scheduler_vars, parser_vars, app_vars, settings_vars>>

\* line 132: self.handler.close(); __exit__ returns None, so an exception of
\* the body goes on to the caller
ExitCloses(c) ==
    /\ context # None
    /\ context.of[c].pc = "flushed"
    /\ context' = [context EXCEPT !.of[c].closed = TRUE, !.of[c].pc = "exited",
                                  !.of[c].propagated = context.of[c].raised]
    /\ UNCHANGED <<retention_vars, threads, race, endpoint, udp,
                   scheduler_vars, parser_vars, app_vars, settings_vars>>

InitContext ==
    /\ store = {} /\ next_id = 1
    /\ now = Clock0
    /\ ticks = 0
    /\ archives = << >>
    /\ config = DefaultConfig
    /\ pass = [p \in Passes |-> IdlePass]
    /\ info = None
    /\ threads = None /\ race = None /\ endpoint = None /\ udp = None
    /\ Elsewhere
    /\ context = [handlers |-> <<Console>>, of |-> [c \in Contexts |-> Outside]]

NextContext ==
    \/ \E c \in Contexts : Enter(c)
    \/ \E c \in Contexts : BodyRaises(c)
    \/ \E c \in Contexts : ExitRemoves(c)
    \/ \E c \in Contexts : ExitFlushes(c)
    \/ \E c \in Contexts : ExitCloses(c)

SpecContext == InitContext /\ [][NextContext]_vars

Attached(hdlr) == \E i \in 1..Len(context.handlers) : context.handlers[i] = hdlr

----------------------------------------------------------------------------
(* The UDP log handler of the server: UDPLogHandler of udp_handler.py *)

\* Socket objects and listener threads are numbered in the order they are
\* made; 0 stands for None.

\* __init__, lines 32-38
NewHandler == [running |-> FALSE, socket |-> 0, thread |-> 0,
               sockets |-> <<>>, listeners |-> <<>>]

\* what a call of start may meet: the socket cannot be made, it cannot be
\* bound, or the thread cannot be started
StartOutcomes == {"ok", "socket_raises", "bind_raises", "thread_raises"}

\* lines 46-64 when the handler is not running
started(h, outcome) ==
    CASE outcome = "ok" ->
            [h EXCEPT !.sockets = Append(@, [open |-> TRUE]),
                      !.socket = Len(h.sockets) + 1,
                      !.running = TRUE,
                      !.listeners = Append(@, [pc |-> "test", sock |-> 0, received |-> {}]),
                      !.thread = Len(h.listeners) + 1]
      [] outcome = "socket_raises" -> [h EXCEPT !.running = FALSE]
      [] outcome = "bind_raises" ->
            [h EXCEPT !.sockets = Append(@, [open |-> FALSE]),
                      !.socket = 0, !.running = FALSE]
      [] OTHER ->
            [h EXCEPT !.sockets = Append(@, [open |-> FALSE]),
                      !.socket = 0, !.running = FALSE,
                      !.listeners = Append(@, [pc |-> "unstarted", sock |-> 0,
                                               received |-> {}]),
                      !.thread = Len(h.listeners) + 1]

\* start, lines 40-64: nothing when running
start(h, outcome) == IF h.running THEN h ELSE started(h, outcome)

\* the sockets after self.socket.close()
closed(h) ==
    IF h.socket = 0 THEN h.sockets ELSE [h.sockets EXCEPT ![h.socket].open = FALSE]

\* stop, lines 66-80: nothing when not running; the join of line 78 waits at
\* most five seconds for the thread and changes nothing
stop(h) ==
    IF ~h.running THEN h
    ELSE [h EXCEPT !.running = FALSE, !.sockets = closed(h), !.socket = 0]

Start ==
    /\ udp # None
    /\ Len(udp.sockets) < MaxStarts
    /\ \E outcome \in StartOutcomes : udp' = start(udp, outcome)
    /\ UNCHANGED <<retention_vars, context, threads, race, endpoint,
                   scheduler_vars, parser_vars, app_vars, settings_vars>>

Stop ==
    /\ udp # None
    /\ udp' = stop(udp)
    /\ UNCHANGED <<retention_vars, context, threads, race, endpoint,
                   scheduler_vars, parser_vars, app_vars, settings_vars>>

\* _listen, line 84: while self.running and self.socket, read from the
\* handler at every turn, and line 87: the call of recvfrom on self.socket
ListenerTests(t) ==
    /\ udp # None
    /\ udp.listeners[t].pc = "test"
    /\ udp' = [udp EXCEPT
          !.listeners[t].pc = IF udp.running /\ udp.socket # 0 THEN "recv" ELSE "exited",
          !.listeners[t].sock = IF udp.running /\ udp.socket # 0 THEN udp.socket ELSE 0]
    /\ UNCHANGED <<retention_vars, context, threads, race, endpoint,
                   scheduler_vars, parser_vars, app_vars, settings_vars>>

\* line 87: recvfrom returns a packet; on a socket closed meanwhile it
\* raises socket.error, which ends the loop (lines 91-94), or still returns
\* a packet that was waiting
ListenerReceives(t) ==
    /\ udp # None
    /\ udp.listeners[t].pc = "recv"
    /\ \E raises \in BOOLEAN :
         /\ raises => ~udp.sockets[udp.listeners[t].sock].open
         /\ udp' = [udp EXCEPT
               !.listeners[t].pc = IF raises THEN "exited" ELSE "process",
               !.listeners[t].received =
                    IF raises THEN @ ELSE @ \cup {udp.listeners[t].sock}]
    /\ UNCHANGED <<retention_vars, context, threads, race, endpoint,
                   scheduler_vars, parser_vars, app_vars, settings_vars>>

\* lines 88-89 and 95-96: _process_log_data returns; it catches what it raises
ListenerProcessed(t) ==
    /\ udp # None
    /\ udp.listeners[t].pc = "process"
    /\ udp' = [udp EXCEPT !.listeners[t].pc = "test"]
    /\ UNCHANGED <<retention_vars, context, threads, race, endpoint,
                   scheduler_vars, parser_vars, app_vars, settings_vars>>

InitUdp ==
    /\ store = {} /\ next_id = 1
    /\ now = Clock0
    /\ ticks = 0
    /\ archives = << >>
    /\ config = DefaultConfig
    /\ pass = [p \in Passes |-> IdlePass]
    /\ info = None
    /\ context = None /\ threads = None /\ race = None /\ endpoint = None
    /\ Elsewhere
    /\ udp = NewHandler

NextUdp ==
    \/ Start
    \/ Stop
    \/ \E t \in 1..Len(udp.listeners) : ListenerTests(t)
    \/ \E t \in 1..Len(udp.listeners) : ListenerReceives(t)
    \/ \E t \in 1..Len(udp.listeners) : ListenerProcessed(t)

SpecUdp == InitUdp /\ [][NextUdp]_vars

\* the listener threads waiting in recvfrom on the socket the handler holds
OnSocket == {t \in 1..Len(udp.listeners) :
                /\ udp.listeners[t].pc = "recv"
                /\ udp.socket # 0 /\ udp.listeners[t].sock = udp.socket}

\* C40: start while running and stop while not running change nothing, a
\* failed start leaves the handler not running and without a socket, and at
\* no time do two listener threads receive on the handler's socket.
C40_OneListener ==
    /\ [][(udp # None /\ udp.running /\ udp'.running)
            => (udp'.sockets = udp.sockets /\ udp'.thread = udp.thread
                /\ Len(udp'.listeners) = Len(udp.listeners))]_vars
    /\ [][(udp # None /\ ~udp.running /\ ~udp'.running)
            => (udp'.socket = 0 /\ udp.socket = 0
                /\ \A s \in 1..Len(udp'.sockets) : ~udp'.sockets[s].open)]_vars
    /\ [](udp # None => (udp.running <=> udp.socket # 0))
    /\ [](udp # None => Cardinality(OnSocket) <= 1)

====
